---- MODULE Spec2Model ----
(***************************************************************************)
(* A model of the mesh core of meshrender (src/src/GridElements.cpp):      *)
(* the NodeTree spatial index, and the Mesh operations                     *)
(* RemoveCoincidentNodes, RemoveZeroEdges, ConstructEdgeMap,               *)
(* ConstructReverseNodeArray, CalculateFaceAreas,                          *)
(* CalculateFaceAreasFromOverlap, ExchangeFirstAndSecondMesh, Validate,    *)
(* Face::Contains, Write and Read, and getMesh of meshrender.cpp.          *)
(*                                                                         *)
(* Coordinates are integers (a fixed-point grid); a distance d is compared *)
(* with a tolerance t through d*d < t*t, which is the comparison of the    *)
(* source for non-negative d and t.                                        *)
(*                                                                         *)
(* A size_t value is represented by the signed integer that has the same   *)
(* two's complement bits, so (size_t)(-1) is written -1 and conversions    *)
(* between int and size_t keep the representative; only the unsigned       *)
(* comparison differs from the signed one (ULess).                         *)
(***************************************************************************)
EXTENDS Integers, Sequences, FiniteSets, TLC

\* ------------------------------------------------------------------------
\* Bounds of the model
\* ------------------------------------------------------------------------
MaxCoord == 2
MaxIndex == 2
MaxCalls == 3
MinimumSpacing == 1
MaxNodes == 3
MaxFaceCount == 112
MaxOverlapFaces == 3
MaxWrittenFaces == 3
MaxRenderFaces == 2

\* ------------------------------------------------------------------------
\* Program constants
\* ------------------------------------------------------------------------
IntMax == 2147483647
InvalidNode == -1
ReferenceTolerance == 2
Jump == 10
Unit == 3

VARIABLES
    m_kdtree,   \* NodeTree: the stored (position, data) items, in insertion order
    m_size,     \* NodeTree: the size counter
    treeOp,     \* the last NodeTree call: name, arguments, result, state before it
    passed,     \* every (node, index) pair passed to find_or_insert so far
    nodes,          \* Mesh::nodes
    faces,          \* Mesh::faces, each face the sequence of its edges <<node0, node1>>
    edgemap,        \* Mesh::edgemap, the entries in key order
    revnodearray,   \* Mesh::revnodearray
    vecFaceArea,    \* Mesh::vecFaceArea
    status,         \* "ok", or "crashed" once an operation has ended the process
    op,             \* the last Mesh operation: name, return value, local vectors
    pre,            \* the nodes and faces as they were when the last operation was called
    vecSourceFaceIx,    \* Mesh::vecSourceFaceIx
    vecTargetFaceIx,    \* Mesh::vecTargetFaceIx
    meshOverlap,        \* the overlap mesh handed to CalculateFaceAreasFromOverlap
    file,               \* the NetCDF file of the name handed to Read and Write
    vertices,           \* getMesh: the vertex buffer
    indices             \* getMesh: the index buffer

treeVars == <<m_kdtree, m_size, treeOp, passed>>
meshVars == <<nodes, faces, edgemap, revnodearray, vecFaceArea, status, op, pre>>
overlapVars == <<vecSourceFaceIx, vecTargetFaceIx, meshOverlap>>
vars == <<m_kdtree, m_size, treeOp, passed,
          nodes, faces, edgemap, revnodearray, vecFaceArea, status, op, pre,
          vecSourceFaceIx, vecTargetFaceIx, meshOverlap, file, vertices, indices>>
ioVars == <<file, vertices, indices>>

\* ------------------------------------------------------------------------
\* Helpers on sequences and sets
\* ------------------------------------------------------------------------
Range(s) == {s[i] : i \in 1..Len(s)}

\* All enumerations of a finite set as a sequence without repetition.
Orderings(S) ==
    {s \in [1..Cardinality(S) -> S] : \A i, j \in 1..Cardinality(S) : i # j => s[i] # s[j]}

\* The elements of a finite set of integers in ascending order.
RECURSIVE Ascending(_)
Ascending(S) ==
    IF S = {} THEN <<>>
    ELSE LET least == CHOOSE x \in S : \A y \in S : x <= y
         IN  <<least>> \o Ascending(S \ {least})

\* std::vector::resize(n, fill): the first n elements, new ones equal to fill.
Resize(seq, n, fill) == [i \in 1..n |-> IF i <= Len(seq) THEN seq[i] ELSE fill]

\* ------------------------------------------------------------------------
\* Node arithmetic
\* ------------------------------------------------------------------------
NodeMinus(a, b) == <<a[1] - b[1], a[2] - b[2], a[3] - b[3]>>

\* Square of Node::Magnitude().
Magnitude2(n) == n[1] * n[1] + n[2] * n[2] + n[3] * n[3]

\* Unsigned comparison of two size_t values given by their representatives.
ULess(a, b) == IF (a < 0) = (b < 0) THEN a < b ELSE b < 0

\* ------------------------------------------------------------------------
\* kdtree
\* ------------------------------------------------------------------------
\* The items within the range of the query position (kd_nearest_range3), as
\* the result set is iterated: in any order.
kd_nearest_range3(tree, node, range) ==
    Orderings({i \in 1..Len(tree) :
        Magnitude2(NodeMinus(tree[i].pos, node)) <= range * range})

\* kd_insert3
kd_insert3(tree, node, data) == Append(tree, [pos |-> node, data |-> data])

\* nearest item of the tree to node (kd_nearest3): any of the items at the
\* least distance.
kd_nearest3(tree, node) ==
    {tree[i] : i \in {k \in 1..Len(tree) :
        \A m \in 1..Len(tree) :
            Magnitude2(NodeMinus(tree[k].pos, node)) <= Magnitude2(NodeMinus(tree[m].pos, node))}}

\* ------------------------------------------------------------------------
\* Edge and Face
\* ------------------------------------------------------------------------
\* Edge::operator< : edges are ordered by their smaller node, then by their
\* larger node, whatever their direction.
EdgeMin(e) == IF e[1] < e[2] THEN e[1] ELSE e[2]
EdgeMax(e) == IF e[1] < e[2] THEN e[2] ELSE e[1]
EdgeLess(e, f) ==
    \/ EdgeMin(e) < EdgeMin(f)
    \/ EdgeMin(e) = EdgeMin(f) /\ EdgeMax(e) < EdgeMax(f)

\* Face::operator[] : the first node of the edge at position k (from 0).
FaceNode(face, k) == face[k + 1][1]

\* Face(n) followed by SetNode(k, v[k]) for every k: the edges of the cycle v.
FaceOfNodes(v) ==
    [k \in 1..Len(v) |-> <<v[k], v[(k % Len(v)) + 1]>>]

\* Face::RemoveZeroEdges
FaceRemoveZeroEdges(face) == SelectSeq(face, LAMBDA e : e[1] # e[2])

\* ------------------------------------------------------------------------
\* Mesh::ConstructEdgeMap
\* ------------------------------------------------------------------------
\* FacePair::AddFace
AddFace(facepair, ixFace) == Append(facepair, ixFace)

\* std::map::insert of (edge, empty pair) followed by AddFace(i) on the entry
\* the insert returns: the entry with an equivalent key if there is one, and
\* otherwise a new entry at the position the key order gives.
EdgeMapInsertAddFace(map, edge, i) ==
    LET same == {n \in 1..Len(map) :
                    ~EdgeLess(map[n].edge, edge) /\ ~EdgeLess(edge, map[n].edge)}
    IN  IF same # {}
        THEN LET n == CHOOSE m \in same : TRUE
             IN  [map EXCEPT ![n].faces = AddFace(@, i)]
        ELSE LET before == SelectSeq(map, LAMBDA en : EdgeLess(en.edge, edge))
                 after == SelectSeq(map, LAMBDA en : EdgeLess(edge, en.edge))
             IN  before \o <<[edge |-> edge, faces |-> AddFace(<<>>, i)]>> \o after

\* EdgeMapFaceLoop that records zero edges as well.
RECURSIVE EdgeMapFaceLoopNoSkip(_, _, _, _)
EdgeMapFaceLoopNoSkip(map, face, i, k) ==
    LET nEdges == Len(face)
    IN  IF k >= nEdges THEN map
        ELSE EdgeMapFaceLoopNoSkip(
                EdgeMapInsertAddFace(map,
                    <<FaceNode(face, k), FaceNode(face, (k + 1) % nEdges)>>, i),
                face, i, k + 1)

\* EdgeMapFaceLoop that stops before the edge from the last node to the first.
RECURSIVE EdgeMapFaceLoopNoWrap(_, _, _, _)
EdgeMapFaceLoopNoWrap(map, face, i, k) ==
    LET nEdges == Len(face)
    IN  IF k + 1 >= nEdges THEN map
        ELSE IF FaceNode(face, k) = FaceNode(face, k + 1)
        THEN EdgeMapFaceLoopNoWrap(map, face, i, k + 1)
        ELSE EdgeMapFaceLoopNoWrap(
                EdgeMapInsertAddFace(map, <<FaceNode(face, k), FaceNode(face, k + 1)>>, i),
                face, i, k + 1)

\* The loop over the positions of face i, from position k on, skipping the
\* positions whose node equals the next one: an equal pair is a zero edge.
RECURSIVE EdgeMapFaceLoop(_, _, _, _)
EdgeMapFaceLoop(map, face, i, k) ==
    LET nEdges == Len(face)
    IN  IF k >= nEdges THEN map
        ELSE IF FaceNode(face, k) = FaceNode(face, (k + 1) % nEdges)
        THEN EdgeMapFaceLoop(map, face, i, k + 1)
        ELSE EdgeMapFaceLoop(
                EdgeMapInsertAddFace(map,
                    <<FaceNode(face, k), FaceNode(face, (k + 1) % nEdges)>>, i),
                face, i, k + 1)

\* The loop over the faces, from face i (from 0) on.
RECURSIVE EdgeMapLoop(_, _, _)
EdgeMapLoop(map, fs, i) ==
    IF i >= Len(fs) THEN map
    ELSE EdgeMapLoop(EdgeMapFaceLoop(map, fs[i + 1], i, 0), fs, i + 1)

\* ConstructEdgeMap without edgemap.clear().
ConstructEdgeMapNoClear(oldmap, fs) == EdgeMapLoop(oldmap, fs, 0)

\* The edge map ConstructEdgeMap leaves, given the one it finds.
ConstructEdgeMapResult(oldmap, fs) == EdgeMapLoop(<<>>, fs, 0)

\* ------------------------------------------------------------------------
\* Mesh::ConstructReverseNodeArray
\* ------------------------------------------------------------------------
\* The loop over the edges of face i, from edge k (from 0) on.
RECURSIVE RevNodeFaceLoop(_, _, _, _)
RevNodeFaceLoop(rev, face, i, k) ==
    IF k >= Len(face) THEN rev
    ELSE LET ixNode == face[k + 1][1]
         IN  RevNodeFaceLoop([rev EXCEPT ![ixNode + 1] = @ \cup {i}], face, i, k + 1)

RECURSIVE RevNodeLoop(_, _, _)
RevNodeLoop(rev, fs, i) ==
    IF i >= Len(fs) THEN rev
    ELSE RevNodeLoop(RevNodeFaceLoop(rev, fs[i + 1], i, 0), fs, i + 1)

\* ConstructReverseNodeArray that resizes without clearing the sets.
ConstructReverseNodeArrayNoClear(oldrev, ns, fs) ==
    RevNodeLoop([n \in 1..Len(ns) |-> IF n <= Len(oldrev) THEN oldrev[n] ELSE {}], fs, 0)

\* The reverse node array ConstructReverseNodeArray leaves: resized to the
\* number of nodes, every set cleared, then filled.
ConstructReverseNodeArrayResult(oldrev, ns, fs) ==
    RevNodeLoop([n \in 1..Len(ns) |-> {}], fs, 0)

\* ------------------------------------------------------------------------
\* Mesh::CalculateFaceAreas
\* ------------------------------------------------------------------------
CrossProduct(a, b) ==
    <<a[2] * b[3] - a[3] * b[2], a[3] * b[1] - a[1] * b[3], a[1] * b[2] - a[2] * b[1]>>

Abs(x) == IF x < 0 THEN -x ELSE x

\* The contribution of the fan triangle (node1, node2, node3) to the area of
\* a face. The source integrates the Jacobian of the map onto the sphere by
\* Gauss quadrature; the model takes the size of the cross product of the two
\* sides, a whole number on the grid.
TriangleArea(node1, node2, node3) ==
    LET c == CrossProduct(NodeMinus(node2, node1), NodeMinus(node3, node1))
    IN  Abs(c[1]) + Abs(c[2]) + Abs(c[3])

\* The loop of CalculateFaceAreaQuadratureMethod over the fan triangles.
RECURSIVE FaceAreaLoop(_, _, _, _)
FaceAreaLoop(face, ns, j, dFaceArea) ==
    LET nTriangles == Len(face) - 2
    IN  IF j >= nTriangles THEN dFaceArea
        ELSE FaceAreaLoop(face, ns, j + 1,
                dFaceArea + TriangleArea(ns[FaceNode(face, 0) + 1],
                                         ns[FaceNode(face, j + 1) + 1],
                                         ns[FaceNode(face, j + 2) + 1]))

CalculateFaceArea(face, ns) == FaceAreaLoop(face, ns, 0, 0)

\* AccumulateBlock that stops one entry before the end of the block.
RECURSIVE AccumulateBlockShort(_, _, _, _)
AccumulateBlockShort(bak, i, ixRef, j) ==
    IF j >= Jump - 1 \/ ixRef + j >= Len(bak) THEN bak
    ELSE AccumulateBlockShort([bak EXCEPT ![i + 1] = @ + bak[ixRef + j + 1]], i, ixRef, j + 1)

\* The inner loop of the accumulation: the entries after the first of the
\* block at ixRef are added to entry i, in place.
RECURSIVE AccumulateBlock(_, _, _, _)
AccumulateBlock(bak, i, ixRef, j) ==
    IF j >= Jump \/ ixRef + j >= Len(bak) THEN bak
    ELSE AccumulateBlock([bak EXCEPT ![i + 1] = @ + bak[ixRef + j + 1]], i, ixRef, j + 1)

\* One pass over the blocks, from block i on: entry i becomes the sum of the
\* block of Jump entries at Jump * i.
RECURSIVE AccumulatePass(_, _)
AccumulatePass(bak, i) ==
    IF i > (Len(bak) - 1) \div Jump THEN bak
    ELSE LET ixRef == Jump * i
             first == [bak EXCEPT ![i + 1] = bak[ixRef + 1]]
         IN  AccumulatePass(AccumulateBlock(first, i, ixRef, 1), i + 1)

\* The passes, each followed by the resize, until one entry is left.
RECURSIVE AccumulateCarefully(_)
AccumulateCarefully(vecFaceAreaBak) ==
    IF Len(vecFaceAreaBak) = 1 THEN vecFaceAreaBak[1]
    ELSE AccumulateCarefully(
            SubSeq(AccumulatePass(vecFaceAreaBak, 0), 1, (Len(vecFaceAreaBak) - 1) \div Jump + 1))

\* The area array and the return value of CalculateFaceAreas.
CalculateFaceAreasResult(ns, fs) ==
    LET areas == [i \in 1..Len(fs) |-> CalculateFaceArea(fs[i], ns)]
    IN  IF Len(fs) = 0
        THEN [vecFaceArea |-> areas, ret |-> 0]
        ELSE [vecFaceArea |-> areas, ret |-> AccumulateCarefully(areas)]

\* ------------------------------------------------------------------------
\* Mesh::CalculateFaceAreasFromOverlap
\* ------------------------------------------------------------------------
\* DataArray1D::Allocate(n): n entries, all zero.
Allocate(n) == [i \in 1..n |-> 0]

\* The range test as a signed comparison.
IsInvalidFaceIndexSigned(ixFirstFace, rows) == ixFirstFace >= rows

\* The range test of the loop: ixFirstFace (int) >= GetRows() (unsigned).
IsInvalidFaceIndex(ixFirstFace, rows) == ~ULess(ixFirstFace, rows)

\* The accumulation as an assignment.
AddAreaAssigns(areas, ixFirstFace, area) ==
    [areas EXCEPT ![ixFirstFace + 1] = area]

\* One accumulation: vecFaceArea[ixFirstFace] += area.
AddArea(areas, ixFirstFace, area) ==
    [areas EXCEPT ![ixFirstFace + 1] = @ + area]

\* The loop over the faces of meshOverlap from face i on. An index that
\* passes the range test and is outside the array addresses memory that is
\* not the array's.
RECURSIVE OverlapLoop(_, _, _, _)
OverlapLoop(areas, overlap, i, dTotalArea) ==
    IF i >= overlap.faces
    THEN [vecFaceArea |-> areas, ret |-> dTotalArea, status |-> "ok",
          threw |-> FALSE, error |-> ""]
    ELSE LET ixFirstFace == overlap.vecSourceFaceIx[i + 1]
         IN  IF IsInvalidFaceIndex(ixFirstFace, Len(areas))
             THEN [vecFaceArea |-> areas, ret |-> 0, status |-> "ok", threw |-> TRUE,
                   error |-> "Overlap Mesh FirstFaceIx contains invalid Face index"]
             ELSE IF ixFirstFace < 0 \/ ixFirstFace >= Len(areas)
             THEN [vecFaceArea |-> areas, ret |-> 0, status |-> "crashed",
                   threw |-> FALSE, error |-> ""]
             ELSE OverlapLoop(AddArea(areas, ixFirstFace, overlap.vecFaceArea[i + 1]),
                              overlap, i + 1, dTotalArea + overlap.vecFaceArea[i + 1])

\* The area array, the return value and the error of
\* CalculateFaceAreasFromOverlap.
CalculateFaceAreasFromOverlapResult(oldareas, fs, overlap) ==
    IF Len(overlap.vecFaceArea) = 0
    THEN [vecFaceArea |-> oldareas, ret |-> 0, status |-> "ok", threw |-> TRUE,
          error |-> "MeshOverlap Face Areas have not been calculated"]
    ELSE OverlapLoop(Allocate(Len(fs)), overlap, 0, 0)

\* ------------------------------------------------------------------------
\* Mesh::ExchangeFirstAndSecondMesh
\* ------------------------------------------------------------------------
\* The number of leading pairs of a multimap whose key is below the bound,
\* counted from position k on.
RECURSIVE CountKeys(_, _, _, _)
CountKeys(multimap, Before(_), k, n) ==
    IF k > Len(multimap) \/ ~Before(multimap[k][1]) THEN n
    ELSE CountKeys(multimap, Before, k + 1, n + 1)

InsertAt(seq, n, x) == SubSeq(seq, 1, n) \o <<x>> \o SubSeq(seq, n + 1, Len(seq))

\* std::multimap::insert that puts a pair in front of the pairs of an
\* equal key.
MultimapInsertFirst(multimap, key, value) ==
    InsertAt(multimap, CountKeys(multimap, LAMBDA x : x < key, 1, 0), <<key, value>>)

\* std::multimap::insert: the pairs are kept in key order, a new pair
\* behind the pairs of an equal key.
MultimapInsert(multimap, key, value) ==
    InsertAt(multimap, CountKeys(multimap, LAMBDA x : x <= key, 1, 0), <<key, value>>)

\* The reordering map: the pair (vecTargetFaceIx[i], i) for every i.
RECURSIVE ReorderLoop(_, _, _)
ReorderLoop(multimapReorder, tgt, i) ==
    IF i >= Len(tgt) THEN multimapReorder
    ELSE ReorderLoop(MultimapInsert(multimapReorder, tgt[i + 1], i), tgt, i + 1)

\* The faces and the parent index arrays after
\* ExchangeFirstAndSecondMesh, or the exception of the size test.
ExchangeResult(fs, src, tgt) ==
    IF Len(fs) # Len(src) \/ Len(fs) # Len(tgt)
    THEN [faces |-> fs, vecSourceFaceIx |-> src, vecTargetFaceIx |-> tgt, threw |-> TRUE]
    ELSE LET multimapReorder == ReorderLoop(<<>>, tgt, 0)
             n == Len(multimapReorder)
         IN  [faces |-> [k \in 1..n |-> fs[multimapReorder[k][2] + 1]],
              vecSourceFaceIx |-> [k \in 1..n |-> multimapReorder[k][1]],
              vecTargetFaceIx |-> [k \in 1..n |-> src[multimapReorder[k][2] + 1]],
              threw |-> FALSE]

\* ------------------------------------------------------------------------
\* Mesh::RemoveZeroEdges
\* ------------------------------------------------------------------------
RemoveZeroEdgesResult(fs) == [i \in 1..Len(fs) |-> FaceRemoveZeroEdges(fs[i])]

\* ------------------------------------------------------------------------
\* Face::Contains
\* ------------------------------------------------------------------------
\* The intersection of the arc from lo to hi (lo.z < hi.z) with the plane
\* z = n0.z, every coordinate multiplied by hi.z - lo.z, which is positive:
\* dA is (n0.z - lo.z) / (hi.z - lo.z).
Intersection(n0, lo, hi) ==
    LET q == hi[3] - lo[3]
        p == n0[3] - lo[3]
    IN  <<(q - p) * lo[1] + p * hi[1], (q - p) * lo[2] + p * hi[2], q * n0[3]>>

\* da < 0.0 for da = dc / dd in floating point: a quotient of opposite
\* signs, or minus infinity; not minus zero and not NaN.
IsNegativeQuotient(dc, dd) == IF dd = 0 THEN dc < 0 ELSE dc * dd < 0

\* What the pair (n1, n2) adds to nParity.
ContainsEdge(n0, n1, n2) ==
    IF n1[3] > n0[3] /\ n2[3] > n0[3] THEN 0
    ELSE IF n1[3] < n0[3] /\ n2[3] < n0[3] THEN 0
    ELSE IF n1[3] = n2[3] THEN 0
    ELSE LET nx == IF n1[3] < n2[3] THEN Intersection(n0, n1, n2)
                   ELSE Intersection(n0, n2, n1)
             dc == n0[1] * nx[2] - n0[2] * nx[1]
             dd == n0[1] * nx[1] + n0[2] * nx[2] + n0[3] * nx[3]
         IN  IF IsNegativeQuotient(dc, dd) THEN 0
             ELSE IF n1[3] < n2[3] THEN 1 ELSE -1

\* The loop over the edges from i1 on.
RECURSIVE ContainsLoop(_, _, _, _, _)
ContainsLoop(face, n0, nodevec, i1, nParity) ==
    IF i1 >= Len(face) THEN nParity
    ELSE LET i2 == (i1 + 1) % Len(face)
             n1 == nodevec[FaceNode(face, i1) + 1]
             n2 == nodevec[FaceNode(face, i2) + 1]
         IN  ContainsLoop(face, n0, nodevec, i1 + 1, nParity + ContainsEdge(n0, n1, n2))

\* Contains as an odd number of counted crossings.
ContainsOdd(face, n0, nodevec) == ContainsLoop(face, n0, nodevec, 0, 0) % 2 = 1

\* bool Face::Contains(const Node & n0, const NodeVector & nodevec) const
Contains(face, n0, nodevec) == ContainsLoop(face, n0, nodevec, 0, 0) > 0

\* ------------------------------------------------------------------------
\* Mesh::Validate
\* ------------------------------------------------------------------------
\* The meshes to validate live on a grid where 1.0 is Unit steps, so the
\* tolerance of the magnitude test is far below one step: a grid node
\* passes the test exactly when its magnitude is Unit.
IsUnitMagnitude(node) == Magnitude2(node) = Unit * Unit

DotProduct(a, b) == a[1] * b[1] + a[2] * b[2] + a[3] * b[3]

\* The first loop that skips nothing.
SkipZeroEdgesNone(face, j) == j

\* The first loop over zero edges: from j < nEdges on to the first edge
\* that is not a zero edge, or to nEdges.
RECURSIVE SkipZeroEdges(_, _)
SkipZeroEdges(face, j) ==
    IF face[j + 1][1] = face[j + 1][2]
    THEN IF j + 1 = Len(face) THEN j + 1 ELSE SkipZeroEdges(face, j + 1)
    ELSE j

\* The second loop over zero edges: jNext, or -1 for the exception.
RECURSIVE FindNextEdge(_, _, _)
FindNextEdge(face, j, jNext) ==
    IF face[jNext + 1][1] = face[jNext + 1][2]
    THEN LET wrapped == IF jNext + 1 = Len(face) THEN 0 ELSE jNext + 1
         IN  IF wrapped = (j + 1) % Len(face) THEN -1
             ELSE FindNextEdge(face, j, wrapped)
    ELSE jNext

\* The orientation test with the sign of the comparison turned round.
IsClockwiseNegative(node0, node1, node2) ==
    DotProduct(node1, CrossProduct(NodeMinus(node0, node1), NodeMinus(node2, node1))) < 0

\* dDot > 0.0: the cross product of the vectors along the two edges,
\* dotted with the radial vector of their common node.
IsClockwise(node0, node1, node2) ==
    DotProduct(node1, CrossProduct(NodeMinus(node0, node1), NodeMinus(node2, node1))) > 0

\* The loop over the edges of a face from j on: the message of the
\* exception, or "" when the loop ends.
RECURSIVE ValidateEdges(_, _, _)
ValidateEdges(face, ns, j) ==
    LET nEdges == Len(face)
    IN  IF j >= nEdges THEN ""
        ELSE LET j1 == SkipZeroEdges(face, j)
             IN  IF j1 = nEdges THEN ""
                 ELSE IF FindNextEdge(face, j1, (j1 + 1) % nEdges) = -1
                 THEN "Mesh validation failed: No edge information on Face"
                 ELSE LET edge0 == face[j1 + 1]
                          edge1 == face[((j1 + 1) % nEdges) + 1]
                      IN  IF edge0[2] # edge1[1]
                          THEN "Mesh validation failed: Edge cyclicity error"
                          ELSE IF IsClockwise(ns[edge0[1] + 1], ns[edge0[2] + 1],
                                              ns[edge1[2] + 1])
                          THEN "Mesh validation failed: Clockwise or concave face detected"
                          ELSE ValidateEdges(face, ns, j1 + 1)

RECURSIVE ValidateFaces(_, _, _)
ValidateFaces(ns, fs, i) ==
    IF i >= Len(fs) THEN ""
    ELSE LET error == ValidateEdges(fs[i + 1], ns, 0)
         IN  IF error # "" THEN error ELSE ValidateFaces(ns, fs, i + 1)

RECURSIVE ValidateNodes(_, _)
ValidateNodes(ns, i) ==
    IF i >= Len(ns) THEN ""
    ELSE IF ~IsUnitMagnitude(ns[i + 1])
    THEN "Mesh validation failed: Node of non-unit magnitude detected"
    ELSE ValidateNodes(ns, i + 1)

\* The message of the exception of Validate, or "" when it returns.
ValidateResult(ns, fs) ==
    IF ValidateNodes(ns, 0) # "" THEN ValidateNodes(ns, 0) ELSE ValidateFaces(ns, fs, 0)

\* ------------------------------------------------------------------------
\* Mesh::RemoveCoincidentNodes
\* ------------------------------------------------------------------------
\* The test that merges a node into the nearest unique node.
IsCoincident(nodeDelta) ==
    Magnitude2(nodeDelta) < ReferenceTolerance * ReferenceTolerance

\* The pass in which a merged node goes into the tree too, under the index
\* of the unique it was merged into.
RECURSIVE DedupPassAllCandidates(_, _, _, _, _)
DedupPassAllCandidates(ns, k, kdt, vecNewNodeIndex, vecUniques) ==
    IF k >= Len(ns)
    THEN {[vecNewNodeIndex |-> vecNewNodeIndex, vecUniques |-> vecUniques]}
    ELSE LET node == ns[k + 1]
         IN  UNION {
                IF IsCoincident(NodeMinus(node, nearest.pos))
                THEN DedupPassAllCandidates(ns, k + 1, kd_insert3(kdt, node, nearest.data),
                               Append(vecNewNodeIndex, nearest.data), vecUniques)
                ELSE DedupPassAllCandidates(ns, k + 1, kd_insert3(kdt, node, Len(vecUniques)),
                               Append(vecNewNodeIndex, Len(vecUniques)),
                               Append(vecUniques, k))
                : nearest \in kd_nearest3(kdt, node)}

\* The pass over the nodes from node k (from 0) on: every pair of vectors
\* (vecNewNodeIndex, vecUniques) it can end with, one for each choice
\* kd_nearest3 has among equally near items.
RECURSIVE DedupPass(_, _, _, _, _)
DedupPass(ns, k, kdt, vecNewNodeIndex, vecUniques) ==
    IF k >= Len(ns)
    THEN {[vecNewNodeIndex |-> vecNewNodeIndex, vecUniques |-> vecUniques]}
    ELSE LET node == ns[k + 1]
         IN  UNION {
                IF IsCoincident(NodeMinus(node, nearest.pos))
                THEN DedupPass(ns, k + 1, kdt,
                               Append(vecNewNodeIndex, nearest.data), vecUniques)
                ELSE DedupPass(ns, k + 1, kd_insert3(kdt, node, Len(vecUniques)),
                               Append(vecNewNodeIndex, Len(vecUniques)),
                               Append(vecUniques, k))
                : nearest \in kd_nearest3(kdt, node)}

\* CompactNodes that keeps the first nodes instead of the unique ones.
CompactNodesFirst(nodesOld, vecUniques) ==
    [i \in 1..Len(vecUniques) |-> nodesOld[i]]

\* The nodes vector after the duplicates are removed.
CompactNodes(nodesOld, vecUniques) ==
    [i \in 1..Len(vecUniques) |-> nodesOld[vecUniques[i] + 1]]

\* The faces after the node indices of their edges are adjusted.
RemapFaces(fs, vecNewNodeIndex) ==
    [f \in 1..Len(fs) |->
        [e \in 1..Len(fs[f]) |->
            <<vecNewNodeIndex[fs[f][e][1] + 1], vecNewNodeIndex[fs[f][e][2] + 1]>>]]

\* What reading a node outside the node list can yield.
GarbageNodes == {<<0, 0, 0>>, <<1, 0, 0>>}

\* What reading an index outside a vector of indices can yield.
GarbageIndices == {0, InvalidNode}

\* Every edge of every face holds indices into a vector of n elements.
IndicesInRange(fs, n) ==
    \A f \in 1..Len(fs) : \A e \in 1..Len(fs[f]) :
        fs[f][e][1] \in 0..(n - 1) /\ fs[f][e][2] \in 0..(n - 1)

\* RemapFaces where an index outside vecNewNodeIndex reads garbage.
RemapFacesOutside(fs, vecNewNodeIndex, garbage) ==
    LET At(ix) == IF ix \in 0..(Len(vecNewNodeIndex) - 1)
                  THEN vecNewNodeIndex[ix + 1] ELSE garbage
    IN  [f \in 1..Len(fs) |->
            [e \in 1..Len(fs[f]) |-> <<At(fs[f][e][1]), At(fs[f][e][2])>>]]

\* Every outcome of RemoveCoincidentNodes on a mesh with at least one node.
\* With duplicates found, an edge whose index is outside the node list is
\* adjusted by a read outside vecNewNodeIndex, which ends the process or
\* yields some index.
DedupOutcomes(ns, fs) ==
    UNION {
        IF Len(d.vecUniques) = Len(ns)
        THEN {[nodes |-> ns, faces |-> fs, status |-> "ok",
               vecNewNodeIndex |-> d.vecNewNodeIndex, vecUniques |-> d.vecUniques]}
        ELSE IF IndicesInRange(fs, Len(ns))
        THEN {[nodes |-> CompactNodes(ns, d.vecUniques),
               faces |-> RemapFaces(fs, d.vecNewNodeIndex), status |-> "ok",
               vecNewNodeIndex |-> d.vecNewNodeIndex, vecUniques |-> d.vecUniques]}
        ELSE {[nodes |-> CompactNodes(ns, d.vecUniques), faces |-> fs, status |-> "crashed",
               vecNewNodeIndex |-> d.vecNewNodeIndex, vecUniques |-> d.vecUniques]}
             \cup
             {[nodes |-> CompactNodes(ns, d.vecUniques),
               faces |-> RemapFacesOutside(fs, d.vecNewNodeIndex, g), status |-> "ok",
               vecNewNodeIndex |-> d.vecNewNodeIndex, vecUniques |-> d.vecUniques]
                : g \in GarbageIndices}
        : d \in DedupPass(ns, 1, kd_insert3(<<>>, ns[1], 0), <<0>>, <<0>>)}

\* Every outcome of RemoveCoincidentNodes on a mesh without nodes: nodes[0]
\* is read outside the vector, which ends the process or yields some node;
\* then one unique against no nodes is taken for duplicates, and the nodes
\* vector becomes one node read outside the copy of the old, empty vector.
DedupOutcomesNoNodes(ns, fs) ==
    {[nodes |-> ns, faces |-> fs, status |-> "crashed",
      vecNewNodeIndex |-> <<>>, vecUniques |-> <<>>]}
    \cup
    {[nodes |-> <<g>>, faces |-> RemapFacesOutside(fs, <<0>>, h), status |-> "ok",
      vecNewNodeIndex |-> <<0>>, vecUniques |-> <<0>>]
        : g \in GarbageNodes, h \in GarbageIndices}

RemoveCoincidentNodesOutcomes(ns, fs) ==
    IF Len(ns) = 0 THEN DedupOutcomesNoNodes(ns, fs) ELSE DedupOutcomes(ns, fs)

\* ------------------------------------------------------------------------
\* NetCDF files
\* ------------------------------------------------------------------------
\* A file is a record: whether it can be opened, the global attributes
\* title and version, the names of the dimensions of the SCRIP triad it
\* has (dims), the names of the other dimensions and variables that it
\* lacks (missing), and the data: the sizes num_elem and num_el_blk, the
\* element blocks and the node coordinates of an Exodus file, the cells of
\* an ICON file (whose vertices are in coord), the corners of a SCRIP file.
strFile == "mesh.g"

NoFile ==
    [exists |-> FALSE, title |-> "none", version |-> "none", dims |-> {}, missing |-> {},
     num_elem |-> 0, num_el_blk |-> 0, blocks |-> <<>>, coord |-> <<>>,
     cells |-> <<>>, corners |-> <<>>]

\* The name of a dimension or variable of block n: snprintf(..., "%s%i", n).
FieldName(base, n) ==
    [num_nod_per_el |-> <<"num_nod_per_el1", "num_nod_per_el2", "num_nod_per_el3">>,
     num_el_in_blk |-> <<"num_el_in_blk1", "num_el_in_blk2", "num_el_in_blk3">>,
     connect |-> <<"connect1", "connect2", "connect3">>,
     global_id |-> <<"global_id1", "global_id2", "global_id3">>,
     el_parent_a |-> <<"el_parent_a1", "el_parent_a2", "el_parent_a3">>,
     el_parent_b |-> <<"el_parent_b1", "el_parent_b2", "el_parent_b3">>][base][n]

\* ------------------------------------------------------------------------
\* Mesh::Write
\* ------------------------------------------------------------------------
\* The block of the faces of d edges with the position in the block as the
\* global id.
WriteBlockLocalId(fs, src, tgt, d) ==
    LET ix == Ascending({i \in 1..Len(fs) : Len(fs[i]) = d})
    IN  [connect |-> [l \in 1..Len(ix) |-> [k \in 1..d |-> FaceNode(fs[ix[l]], k - 1) + 1]],
         global_id |-> [l \in 1..Len(ix) |-> l],
         hasParentA |-> Len(src) # 0,
         parent_a |-> IF Len(src) # 0 THEN [l \in 1..Len(ix) |-> src[ix[l]] + 1] ELSE <<>>,
         hasParentB |-> Len(tgt) # 0,
         parent_b |-> IF Len(tgt) # 0 THEN [l \in 1..Len(ix) |-> tgt[ix[l]] + 1] ELSE <<>>]

\* The block of the faces of d edges: their nodes and parents, 1-indexed,
\* and their global ids, in the order of the faces.
WriteBlock(fs, src, tgt, d) ==
    LET ix == Ascending({i \in 1..Len(fs) : Len(fs[i]) = d})
    IN  [connect |-> [l \in 1..Len(ix) |-> [k \in 1..d |-> FaceNode(fs[ix[l]], k - 1) + 1]],
         global_id |-> [l \in 1..Len(ix) |-> (ix[l] - 1) + 1],
         hasParentA |-> Len(src) # 0,
         parent_a |-> IF Len(src) # 0 THEN [l \in 1..Len(ix) |-> src[ix[l]] + 1] ELSE <<>>,
         hasParentB |-> Len(tgt) # 0,
         parent_b |-> IF Len(tgt) # 0 THEN [l \in 1..Len(ix) |-> tgt[ix[l]] + 1] ELSE <<>>]

\* The file Write produces: one block for every number of edges that
\* occurs, in ascending order of that number.
WriteResult(ns, fs, src, tgt) ==
    LET vecBlockSizes == Ascending({Len(fs[i]) : i \in 1..Len(fs)})
    IN  [NoFile EXCEPT
            !.exists = TRUE, !.title = "tempest", !.version = "5.00",
            !.num_elem = Len(fs), !.num_el_blk = Len(vecBlockSizes),
            !.blocks = [n \in 1..Len(vecBlockSizes) |->
                            WriteBlock(fs, src, tgt, vecBlockSizes[n])],
            !.coord = ns]

\* ------------------------------------------------------------------------
\* Mesh::Read
\* ------------------------------------------------------------------------
\* The mesh under construction: the members Read assigns, the exception
\* thrown (format string and arguments), whether a write has gone outside
\* a vector (ub), and the branch taken.
Working(ns, fs, src, tgt) ==
    [nodes |-> ns, faces |-> fs, src |-> src, tgt |-> tgt,
     threw |-> FALSE, error |-> "", what |-> <<>>, ub |-> FALSE, format |-> "none"]

Throw(m, error, what) == [m EXCEPT !.threw = TRUE, !.error = error, !.what = what]

\* Face(n): n edges between invalid nodes.
NewFace(n) == [k \in 1..n |-> <<InvalidNode, InvalidNode>>]

\* Face::SetNode(ixLocal, ixNode): the node is the first node of edge
\* ixLocal and the second node of the edge before it.
FaceSetNode(face, ixLocal, ixNode) ==
    LET nEdges == Len(face)
        ixPrev == (ixLocal + nEdges - 1) % nEdges
    IN  [k \in 1..nEdges |->
            <<IF k = ixLocal + 1 THEN ixNode ELSE face[k][1],
              IF k = ixPrev + 1 THEN ixNode ELSE face[k][2]>>]

\* One element of a block is put into the faces and the parent indices.
StoreElement(m, block, i, ix) ==
    LET row == block.connect[i + 1]
        m1 == [m EXCEPT !.faces[ix + 1] = FaceOfNodes([k \in 1..Len(row) |-> row[k] - 1])]
        m2 == IF Len(m1.src) = 0 THEN m1
              ELSE IF ix < Len(m1.src) THEN [m1 EXCEPT !.src[ix + 1] = block.parent_a[i + 1] - 1]
              ELSE [m1 EXCEPT !.ub = TRUE]
    IN  IF Len(m2.tgt) = 0 THEN m2
        ELSE IF ix < Len(m2.tgt) THEN [m2 EXCEPT !.tgt[ix + 1] = block.parent_b[i + 1] - 1]
        ELSE [m2 EXCEPT !.ub = TRUE]

\* iGlobalId[i] - 1 >= nTotalElementCount
IsGlobalIdOutOfRange(iGlobalId, nTotalElementCount) ==
    iGlobalId - 1 >= nTotalElementCount

\* The loop over the elements of block n (from 1) from element i on.
RECURSIVE ExodusElementLoop(_, _, _, _)
ExodusElementLoop(m, f, n, i) ==
    LET block == f.blocks[n]
    IN  IF i >= Len(block.connect) THEN m
        ELSE LET iGlobalId == IF f.version = "4.98" THEN i + 1 ELSE block.global_id[i + 1]
             IN  IF IsGlobalIdOutOfRange(iGlobalId, f.num_elem)
                 THEN Throw(m, "global_id %i out of range [1,%i]", <<iGlobalId, f.num_elem>>)
                 ELSE IF iGlobalId - 1 < 0
                 THEN ExodusElementLoop([m EXCEPT !.ub = TRUE], f, n, i + 1)
                 ELSE ExodusElementLoop(StoreElement(m, block, i, iGlobalId - 1), f, n, i + 1)

\* The parent variable of a block: an exception when it is missing and the
\* mesh has parent indices, a resize when it is there and the mesh has none.
ParentVariable(m, f, has, which, name) ==
    IF ~has /\ Len(m[which]) # 0
    THEN Throw(m, "Exodus Grid file \"%s\" is missing variable \"%s\"", <<strFile, name>>)
    ELSE IF has /\ Len(m[which]) = 0
    THEN [m EXCEPT ![which] = Resize(<<>>, f.num_elem, 0)]
    ELSE m

\* The loop over the blocks from block n (from 0) on.
RECURSIVE ExodusBlockLoop(_, _, _)
ExodusBlockLoop(m, f, n) ==
    LET Lacks(base) == n + 1 > Len(f.blocks) \/ FieldName(base, n + 1) \in f.missing
        MissingDimension(base) ==
            Throw(m, "Exodus Grid file \"%s\" is missing dimension \"%s\"",
                  <<strFile, FieldName(base, n + 1)>>)
        MissingVariable(base) ==
            Throw(m, "Exodus Grid file \"%s\" is missing variable \"%s\"",
                  <<strFile, FieldName(base, n + 1)>>)
    IN  IF n >= f.num_el_blk THEN m
        ELSE IF Lacks("num_nod_per_el") THEN MissingDimension("num_nod_per_el")
        ELSE IF Lacks("num_el_in_blk") THEN MissingDimension("num_el_in_blk")
        ELSE IF Lacks("connect") THEN MissingVariable("connect")
        ELSE IF f.version # "4.98" /\ Lacks("global_id") THEN MissingVariable("global_id")
        ELSE LET block == f.blocks[n + 1]
                 mA == ParentVariable(m, f, block.hasParentA, "src",
                          IF f.version = "4.98" THEN "face_source_1"
                          ELSE FieldName("el_parent_a", n + 1))
                 mB == ParentVariable(mA, f, block.hasParentB, "tgt",
                          IF f.version = "4.98" THEN "face_source_2"
                          ELSE FieldName("el_parent_b", n + 1))
                 mE == ExodusElementLoop(mB, f, n + 1, 0)
             IN  IF mA.threw THEN mA
                 ELSE IF mB.threw THEN mB
                 ELSE IF mE.threw THEN mE
                 ELSE ExodusBlockLoop(mE, f, n + 1)

\* Earlier version had incorrect parent indexing.
IncrementParents(m, f) ==
    IF f.version # "4.98" THEN m
    ELSE [m EXCEPT !.src = [i \in 1..Len(m.src) |-> IF i <= f.num_elem THEN m.src[i] + 1
                                                     ELSE m.src[i]],
                   !.tgt = [i \in 1..Len(m.tgt) |-> IF i <= f.num_elem THEN m.tgt[i] + 1
                                                     ELSE m.tgt[i]],
                   !.ub = \/ m.ub
                          \/ Len(m.src) # 0 /\ Len(m.src) < f.num_elem
                          \/ Len(m.tgt) # 0 /\ Len(m.tgt) < f.num_elem]

\* The Exodus branch up to the call of RemoveCoincidentNodes.
ReadExodus(m0, f) ==
    LET m == [m0 EXCEPT !.format = "Exodus"]
        Missing(kind, name) ==
            Throw(m, IF kind = "dimension"
                     THEN "Exodus Grid file \"%s\" is missing dimension \"%s\""
                     ELSE "Exodus Grid file \"%s\" is missing variable \"%s\"",
                  <<strFile, name>>)
    IN  IF f.version = "none"
        THEN Throw(m, "Exodus Grid file \"%s\" is missing attribute \"version\"", <<strFile>>)
        ELSE IF f.version = "not float"
        THEN Throw(m, "Exodus Grid type is not of type float", <<>>)
        ELSE IF "num_nodes" \in f.missing THEN Missing("dimension", "num_nodes")
        ELSE IF "num_el_blk" \in f.missing THEN Missing("dimension", "num_el_blk")
        ELSE IF "num_elem" \in f.missing THEN Missing("dimension", "num_elem")
        ELSE LET m1 == [m EXCEPT !.faces = Resize(m.faces, f.num_elem, <<>>)]
                 m2 == ExodusBlockLoop(m1, f, 0)
                 m3 == IncrementParents(m2, f)
                 m4 == [m3 EXCEPT !.nodes = Resize(m3.nodes, Len(f.coord), <<0, 0, 0>>)]
             IN  IF m2.threw THEN m2
                 ELSE IF "coord" \in f.missing
                 THEN Throw(m4, "Exodus Grid file \"%s\" is missing variable \"coord\"",
                            <<strFile>>)
                 ELSE [m4 EXCEPT !.nodes = f.coord]

\* The loop of the ICON branch over the vertices of cell i from vertex j on.
RECURSIVE ICONVertexLoop(_, _, _, _)
ICONVertexLoop(m, f, i, j) ==
    IF j >= Len(f.cells[i + 1]) THEN m
    ELSE LET v == f.cells[i + 1][j + 1]
         IN  IF v < 1 \/ v > Len(m.nodes)
             THEN Throw(m, "ICON grid file \"%s\" vertex %li cell %li out of range (%li)",
                        <<strFile, j, i, v>>)
             ELSE IF j >= Len(m.faces[i + 1])
             THEN ICONVertexLoop([m EXCEPT !.ub = TRUE], f, i, j + 1)
             ELSE ICONVertexLoop(
                    [m EXCEPT !.faces[i + 1] = FaceSetNode(m.faces[i + 1], j, v - 1)],
                    f, i, j + 1)

RECURSIVE ICONCellLoop(_, _, _)
ICONCellLoop(m, f, i) ==
    IF i >= Len(f.cells) \/ m.threw THEN m
    ELSE ICONCellLoop(ICONVertexLoop(m, f, i, 0), f, i + 1)

\* The coordinate of one axis is loaded into every node.
LoadAxis(ns, coord, axis) ==
    [i \in 1..Len(ns) |-> [ns[i] EXCEPT ![axis] = coord[i][axis]]]

\* The ICON branch. The test for the dimension "cell" looks at dimVertex
\* again; the variable vertex_of_cell of a file without the dimension
\* "cell" has no dimension of that name.
ReadICON(m0, f) ==
    LET m == [m0 EXCEPT !.format = "ICON"]
        MissingVariable(mm, name) ==
            Throw(mm, "ICON grid file \"%s\" missing variable \"%s\"", <<strFile, name>>)
        m1 == [m EXCEPT !.nodes = Resize(m.nodes, Len(f.coord), <<0, 0, 0>>)]
        mx == [m1 EXCEPT !.nodes = LoadAxis(m1.nodes, f.coord, 1)]
        my == [mx EXCEPT !.nodes = LoadAxis(mx.nodes, f.coord, 2)]
        mz == [my EXCEPT !.nodes = LoadAxis(my.nodes, f.coord, 3)]
        lVerticesPerCell == IF Len(f.cells) = 0 THEN 3 ELSE Len(f.cells[1])
        mf == [mz EXCEPT !.faces = Resize(mz.faces, Len(f.cells), NewFace(lVerticesPerCell))]
    IN  IF "vertex" \in f.missing
        THEN Throw(m, "ICON grid file \"%s\" missing dimension \"vertex\"", <<strFile>>)
        ELSE IF "cartesian_x_vertices" \in f.missing
        THEN MissingVariable(m1, "cartesian_x_vertices")
        ELSE IF "cartesian_y_vertices" \in f.missing
        THEN MissingVariable(mx, "cartesian_y_vertices")
        ELSE IF "cartesian_z_vertices" \in f.missing
        THEN MissingVariable(my, "cartesian_z_vertices")
        ELSE IF "vertex_of_cell" \in f.missing
        THEN MissingVariable(mz, "vertex_of_cell")
        ELSE IF "cell" \in f.missing
        THEN Throw(mz, "ICON grid file \"%s\" variable \"vertex_of_cell\" dimension 1 must have name \"cell\"",
                   <<strFile>>)
        ELSE ICONCellLoop(mf, f, 0)

\* Cosine and sine of a number of quarter turns, in grid steps.
CosQuarter(q) == <<Unit, 0, -Unit, 0>>[(q % 4) + 1]
SinQuarter(q) == <<0, Unit, 0, -Unit>>[(q % 4) + 1]

\* The node of a corner <<lon, lat>>, both in quarter turns: the latitude
\* is cut off at the poles, and a product of two cosines or sines in grid
\* steps is brought back to grid steps.
CornerNode(corner) ==
    LET dLon == corner[1]
        dLat == IF corner[2] > 1 THEN 1 ELSE IF corner[2] < -1 THEN -1 ELSE corner[2]
    IN  <<(CosQuarter(dLon) * CosQuarter(dLat)) \div Unit,
          (SinQuarter(dLon) * CosQuarter(dLat)) \div Unit,
          SinQuarter(dLat)>>

\* The SCRIP branch up to the call of RemoveCoincidentNodes: every face
\* gets nodes of its own.
ReadSCRIP(m0, f) ==
    LET m == [m0 EXCEPT !.format = "SCRIP"]
        nGridSize == Len(f.corners)
        nGridCorners == IF nGridSize = 0 THEN 0 ELSE Len(f.corners[1])
    IN  IF "grid_corner_lat" \in f.missing
        THEN Throw(m, "SCRIP Grid file \"%s\" is missing variable \"grid_corner_lat\"",
                   <<strFile>>)
        ELSE IF "grid_corner_lon" \in f.missing
        THEN Throw(m, "SCRIP Grid file \"%s\" is missing variable \"grid_corner_lon\"",
                   <<strFile>>)
        ELSE [m EXCEPT
                !.faces = [i \in 1..nGridSize |->
                            FaceOfNodes([j \in 1..nGridCorners |->
                                            (i - 1) * nGridCorners + (j - 1)])],
                !.nodes = [k \in 1..(nGridSize * nGridCorners) |->
                            CornerNode(f.corners[((k - 1) \div nGridCorners) + 1]
                                                [((k - 1) % nGridCorners) + 1])]]

\* The number of dimensions of the file that have a name of the SCRIP triad.
SCRIPFormat(f) == Cardinality(f.dims \cap {"grid_size", "grid_corners", "grid_rank"})

\* The choice of the branch with the dimensions looked at before the title.
ParseSCRIPFirst(m, f) ==
    IF SCRIPFormat(f) = 3 THEN ReadSCRIP(m, f)
    ELSE IF f.title = "ICON grid description" THEN ReadICON(m, f)
    ELSE ReadExodus(m, f)

\* The choice of the branch: the title, then the dimensions.
Parse(m, f) ==
    IF f.title = "ICON grid description" THEN ReadICON(m, f)
    ELSE IF SCRIPFormat(f) = 3 THEN ReadSCRIP(m, f)
    ELSE ReadExodus(m, f)

\* The mesh with the process alive or ended.
Ended(m, st) ==
    [nodes |-> m.nodes, faces |-> m.faces, src |-> m.src, tgt |-> m.tgt,
     threw |-> m.threw, error |-> m.error, what |-> m.what, format |-> m.format,
     status |-> st]

\* Every outcome of Read: the exception of an unusable file name, or the
\* branch chosen, followed by RemoveCoincidentNodes in the Exodus branch,
\* and in the SCRIP branch when fRemoveCoincidentNodes is set. A write
\* outside a vector ends the process or is not seen again.
ReadOutcomes(m0, f, fRemoveCoincidentNodes) ==
    IF ~f.exists
    THEN {Ended(Throw(m0, "Unable to open grid file \"%s\" for reading", <<strFile>>), "ok")}
    ELSE LET m == Parse(m0, f)
             after ==
                IF m.threw \/ m.format = "ICON"
                      \/ (m.format = "SCRIP" /\ ~fRemoveCoincidentNodes)
                THEN {Ended(m, "ok")}
                ELSE {Ended([m EXCEPT !.nodes = o.nodes, !.faces = o.faces], o.status)
                        : o \in RemoveCoincidentNodesOutcomes(m.nodes, m.faces)}
         IN  IF m.ub THEN after \cup {Ended(m, "crashed")} ELSE after

\* ------------------------------------------------------------------------
\* NodeTree::find
\* ------------------------------------------------------------------------
\* The loop of find over the result set res (positions into tree), from the
\* item at position k on, with the running minimum iMinimalIndex.
\* FindLoop without the comparison: the last item of the result set wins.
RECURSIVE FindLoopLastWins(_, _, _, _)
FindLoopLastWins(tree, res, k, iMinimalIndex) ==
    IF k > Len(res) THEN iMinimalIndex
    ELSE FindLoopLastWins(tree, res, k + 1, tree[res[k]].data)

RECURSIVE FindLoop(_, _, _, _)
FindLoop(tree, res, k, iMinimalIndex) ==
    IF k > Len(res) THEN iMinimalIndex
    ELSE LET j == tree[res[k]].data
         IN FindLoop(tree, res, k + 1, IF ULess(j, iMinimalIndex) THEN j ELSE iMinimalIndex)

\* find over one iteration order of the result set: the value returned and
\* whether the assertion at the end of the loop failed.
FindIn(tree, res) ==
    IF Len(res) = 0
    THEN [ret |-> InvalidNode, failed |-> FALSE]
    ELSE LET iMinimalIndex == FindLoop(tree, res, 1, IntMax)
         IN [ret |-> iMinimalIndex, failed |-> (iMinimalIndex = IntMax)]

\* Every outcome find can have on this tree and node.
FindOutcomes(tree, node) ==
    {FindIn(tree, res) : res \in kd_nearest_range3(tree, node, MinimumSpacing)}

\* ------------------------------------------------------------------------
\* NodeTree: state and operations
\* ------------------------------------------------------------------------
TreePoints == {<<x, y, 0>> : x \in 0..MaxCoord, y \in 0..1}

NoTreeOp ==
    [name |-> "none", node |-> <<0, 0, 0>>, index |-> 0, ret |-> 0, failed |-> FALSE,
     pre |-> <<>>, preSize |-> 0]

\* NodeTree::NodeTree
InitTree ==
    /\ m_kdtree = <<>>
    /\ m_size = 0
    /\ treeOp = NoTreeOp
    /\ passed = {}

\* size_t NodeTree::find(const Node & node)
find(node) ==
    /\ \E out \in FindOutcomes(m_kdtree, node) :
        /\ treeOp' = [name |-> "find", node |-> node, index |-> 0, ret |-> out.ret,
                      failed |-> out.failed, pre |-> m_kdtree, preSize |-> m_size]
        /\ UNCHANGED <<m_kdtree, m_size, passed>>
    /\ UNCHANGED <<meshVars, overlapVars, ioVars>>

\* FindOrInsertResult that inserts without looking at the result of find.
FindOrInsertResultAlwaysInserts(tree, size, node, index, out) ==
    [tree |-> kd_insert3(tree, node, index), size |-> size + 1,
     ret |-> index, failed |-> FALSE]

\* FindOrInsertResult that returns the index without storing the node.
FindOrInsertResultNoInsert(tree, size, node, index, out) ==
    IF out.ret # InvalidNode
    THEN [tree |-> tree, size |-> size, ret |-> out.ret, failed |-> FALSE]
    ELSE [tree |-> tree, size |-> size + 1, ret |-> index, failed |-> FALSE]

\* The state and result of find_or_insert once find has returned out.
FindOrInsertResult(tree, size, node, index, out) ==
    LET findindex == out.ret
    IN  IF out.failed
        THEN [tree |-> tree, size |-> size, ret |-> findindex, failed |-> TRUE]
        ELSE IF findindex # InvalidNode
        THEN [tree |-> tree, size |-> size, ret |-> findindex, failed |-> FALSE]
        ELSE [tree |-> kd_insert3(tree, node, index), size |-> size + 1,
              ret |-> index, failed |-> FALSE]

\* size_t NodeTree::find_or_insert(const Node & node, size_t index)
find_or_insert(node, index) ==
    /\ Cardinality(passed) < MaxCalls
    /\ \E out \in FindOutcomes(m_kdtree, node) :
        LET r == FindOrInsertResult(m_kdtree, m_size, node, index, out)
        IN  /\ m_kdtree' = r.tree
            /\ m_size' = r.size
            /\ treeOp' = [name |-> "find_or_insert", node |-> node, index |-> index,
                          ret |-> r.ret, failed |-> r.failed,
                          pre |-> m_kdtree, preSize |-> m_size]
            /\ passed' = passed \cup {<<node, index>>}
    /\ UNCHANGED <<meshVars, overlapVars, ioVars>>

\* ------------------------------------------------------------------------
\* Mesh: state and operations
\* ------------------------------------------------------------------------
NoOp ==
    [name |-> "none", again |-> FALSE, arg |-> <<>>, ret |-> 0, threw |-> FALSE, error |-> "",
     what |-> <<>>, format |-> "none",
     vecNewNodeIndex |-> <<>>, vecUniques |-> <<>>]

\* The record of an operation: its name, and whether it is called again
\* right after a call of the same operation.
Called(name) == [NoOp EXCEPT !.name = name, !.again = (op.name = name)]

Snapshot == [nodes |-> nodes, faces |-> faces]

\* An empty-constructed Mesh.
InitMesh ==
    /\ nodes = <<>>
    /\ faces = <<>>
    /\ edgemap = <<>>
    /\ revnodearray = <<>>
    /\ vecFaceArea = <<>>
    /\ status = "ok"
    /\ op = NoOp
    /\ pre = [nodes |-> <<>>, faces |-> <<>>]

\* No parent indices, and an overlap mesh without faces.
NoOverlap == [faces |-> 0, vecFaceArea |-> <<>>, vecSourceFaceIx |-> <<>>]

InitOverlap ==
    /\ vecSourceFaceIx = <<>>
    /\ vecTargetFaceIx = <<>>
    /\ meshOverlap = NoOverlap

\* No file of the name, and empty buffers.
InitIO ==
    /\ file = NoFile
    /\ vertices = <<>>
    /\ indices = <<>>

Init == InitTree /\ InitMesh /\ InitOverlap /\ InitIO

\* The nodes and faces of a file are put into the empty mesh: the node
\* table as it is, every face built from its list of node indices.
Populate(m) ==
    /\ status = "ok"
    /\ op.name = "none"
    /\ nodes' = m.nodes
    /\ faces' = [i \in 1..Len(m.cells) |-> FaceOfNodes(m.cells[i])]
    /\ op' = Called("Populate")
    /\ pre' = Snapshot
    /\ UNCHANGED <<edgemap, revnodearray, vecFaceArea, status>>
    /\ UNCHANGED <<treeVars, overlapVars, ioVars>>

\* void Mesh::ConstructEdgeMap()
ConstructEdgeMap ==
    /\ status = "ok"
    /\ edgemap' = ConstructEdgeMapResult(edgemap, faces)
    /\ op' = Called("ConstructEdgeMap")
    /\ pre' = Snapshot
    /\ UNCHANGED <<nodes, faces, revnodearray, vecFaceArea, status>>
    /\ UNCHANGED <<treeVars, overlapVars, ioVars>>

\* void Mesh::ConstructReverseNodeArray()
ConstructReverseNodeArray ==
    /\ status = "ok"
    /\ revnodearray' = ConstructReverseNodeArrayResult(revnodearray, nodes, faces)
    /\ op' = Called("ConstructReverseNodeArray")
    /\ pre' = Snapshot
    /\ UNCHANGED <<nodes, faces, edgemap, vecFaceArea, status>>
    /\ UNCHANGED <<treeVars, overlapVars, ioVars>>

\* Real Mesh::CalculateFaceAreas(bool fContainsConcaveFaces)
CalculateFaceAreas ==
    /\ status = "ok"
    /\ LET r == CalculateFaceAreasResult(nodes, faces)
       IN  /\ vecFaceArea' = r.vecFaceArea
           /\ op' = [Called("CalculateFaceAreas") EXCEPT !.ret = r.ret]
    /\ pre' = Snapshot
    /\ UNCHANGED <<nodes, faces, edgemap, revnodearray, status>>
    /\ UNCHANGED <<treeVars, overlapVars, ioVars>>

\* RemoveZeroEdges that also discards what was derived from the faces.
RemoveZeroEdgesInvalidating ==
    /\ status = "ok"
    /\ faces' = RemoveZeroEdgesResult(faces)
    /\ edgemap' = <<>>
    /\ revnodearray' = <<>>
    /\ vecFaceArea' = <<>>
    /\ op' = Called("RemoveZeroEdges")
    /\ pre' = Snapshot
    /\ UNCHANGED <<nodes, status>>
    /\ UNCHANGED <<treeVars, overlapVars, ioVars>>

\* void Mesh::RemoveZeroEdges()
RemoveZeroEdges ==
    /\ status = "ok"
    /\ faces' = RemoveZeroEdgesResult(faces)
    /\ op' = Called("RemoveZeroEdges")
    /\ pre' = Snapshot
    /\ UNCHANGED <<nodes, edgemap, revnodearray, vecFaceArea, status>>
    /\ UNCHANGED <<treeVars, overlapVars, ioVars>>

\* void Mesh::RemoveCoincidentNodes()
RemoveCoincidentNodes ==
    /\ status = "ok"
    /\ \E o \in RemoveCoincidentNodesOutcomes(nodes, faces) :
        /\ nodes' = o.nodes
        /\ faces' = o.faces
        /\ status' = o.status
        /\ op' = [Called("RemoveCoincidentNodes") EXCEPT
                    !.vecNewNodeIndex = o.vecNewNodeIndex,
                    !.vecUniques = o.vecUniques]
    /\ pre' = Snapshot
    /\ UNCHANGED <<edgemap, revnodearray, vecFaceArea>>
    /\ UNCHANGED <<treeVars, overlapVars, ioVars>>

\* The caller holds an overlap mesh: its faces, their source-face indices
\* and its area array.
SetOverlap(overlap) ==
    /\ status = "ok"
    /\ meshOverlap = NoOverlap
    /\ op.name \in {"none", "Populate"}
    /\ meshOverlap' = overlap
    /\ UNCHANGED <<meshVars, treeVars, vecSourceFaceIx, vecTargetFaceIx, ioVars>>

\* Real Mesh::CalculateFaceAreasFromOverlap(const Mesh & meshOverlap)
CalculateFaceAreasFromOverlap ==
    /\ status = "ok"
    /\ LET r == CalculateFaceAreasFromOverlapResult(vecFaceArea, faces, meshOverlap)
       IN  /\ vecFaceArea' = r.vecFaceArea
           /\ status' = r.status
           /\ op' = [Called("CalculateFaceAreasFromOverlap") EXCEPT
                        !.ret = r.ret, !.threw = r.threw, !.error = r.error]
    /\ pre' = Snapshot
    /\ UNCHANGED <<nodes, faces, edgemap, revnodearray>>
    /\ UNCHANGED <<treeVars, overlapVars, ioVars>>

\* The parent indices of the faces of an overlap mesh are put into the
\* mesh.
SetParentIndices(src, tgt) ==
    /\ status = "ok"
    /\ op.name \in {"none", "Populate"}
    /\ vecSourceFaceIx = <<>> /\ vecTargetFaceIx = <<>>
    /\ vecSourceFaceIx' = src
    /\ vecTargetFaceIx' = tgt
    /\ UNCHANGED <<meshVars, treeVars, meshOverlap, ioVars>>

\* ExchangeFirstAndSecondMesh that also discards the face areas.
ExchangeFirstAndSecondMeshClearingAreas ==
    /\ status = "ok"
    /\ LET r == ExchangeResult(faces, vecSourceFaceIx, vecTargetFaceIx)
       IN  /\ faces' = r.faces
           /\ vecSourceFaceIx' = r.vecSourceFaceIx
           /\ vecTargetFaceIx' = r.vecTargetFaceIx
           /\ op' = [Called("ExchangeFirstAndSecondMesh") EXCEPT !.threw = r.threw]
    /\ vecFaceArea' = <<>>
    /\ pre' = Snapshot
    /\ UNCHANGED <<nodes, edgemap, revnodearray, status>>
    /\ UNCHANGED <<treeVars, meshOverlap, ioVars>>

\* void Mesh::ExchangeFirstAndSecondMesh()
ExchangeFirstAndSecondMesh ==
    /\ status = "ok"
    /\ LET r == ExchangeResult(faces, vecSourceFaceIx, vecTargetFaceIx)
       IN  /\ faces' = r.faces
           /\ vecSourceFaceIx' = r.vecSourceFaceIx
           /\ vecTargetFaceIx' = r.vecTargetFaceIx
           /\ op' = [Called("ExchangeFirstAndSecondMesh") EXCEPT !.threw = r.threw]
    /\ pre' = Snapshot
    /\ UNCHANGED <<nodes, edgemap, revnodearray, vecFaceArea, status>>
    /\ UNCHANGED <<treeVars, meshOverlap, ioVars>>

\* void Mesh::Validate() const
Validate ==
    /\ status = "ok"
    /\ LET error == ValidateResult(nodes, faces)
       IN  op' = [Called("Validate") EXCEPT !.threw = (error # ""), !.error = error]
    /\ pre' = Snapshot
    /\ UNCHANGED <<nodes, faces, edgemap, revnodearray, vecFaceArea, status>>
    /\ UNCHANGED <<treeVars, overlapVars, ioVars>>

\* faces[ixFace].Contains(n0, nodes)
FaceContains(ixFace, n0) ==
    /\ status = "ok"
    /\ ixFace < Len(faces)
    /\ op' = [Called("Contains") EXCEPT
                !.arg = <<ixFace, n0>>,
                !.ret = IF Contains(faces[ixFace + 1], n0, nodes) THEN 1 ELSE 0]
    /\ pre' = Snapshot
    /\ UNCHANGED <<nodes, faces, edgemap, revnodearray, vecFaceArea, status>>
    /\ UNCHANGED <<treeVars, overlapVars, ioVars>>

\* ------------------------------------------------------------------------
\* getMesh
\* ------------------------------------------------------------------------
\* static_cast<unsigned int>(int): the bits are kept, and so is the
\* representative of the value.
ToUnsigned(i) == i

\* The vertex buffer: five floats for every node, x, z, y, 0, 0.
VertexBuffer(ns) ==
    [k \in 1..(5 * Len(ns)) |->
        LET v == (k - 1) \div 5
        IN  <<ns[v + 1][1], ns[v + 1][3], ns[v + 1][2], 0, 0>>[((k - 1) % 5) + 1]]

\* The index buffer: positions 0 to 3 of every face; a position the face
\* does not have is read outside its edges.
IndexBuffer(fs, garbage) ==
    [k \in 1..(4 * Len(fs)) |->
        LET f == (k - 1) \div 4
            j == (k - 1) % 4
        IN  IF j < Len(fs[f + 1]) THEN ToUnsigned(FaceNode(fs[f + 1], j))
            ELSE ToUnsigned(garbage)]

\* Every outcome of getMesh on a file: the mesh constructed from the file
\* (with either value of the flag of Read), and the buffers; a read outside
\* the edges of a face ends the process or gives any index.
getMeshOutcomes(f, oldVertices, oldIndices) ==
    UNION {
        IF o.threw \/ o.status # "ok"
        THEN {[mesh |-> o, vertices |-> oldVertices, indices |-> oldIndices,
               status |-> o.status]}
        ELSE IF \A i \in 1..Len(o.faces) : Len(o.faces[i]) >= 4
        THEN {[mesh |-> o, vertices |-> VertexBuffer(o.nodes),
               indices |-> IndexBuffer(o.faces, 0), status |-> "ok"]}
        ELSE {[mesh |-> o, vertices |-> VertexBuffer(o.nodes),
               indices |-> Resize(oldIndices, 4 * Len(o.faces), 0), status |-> "crashed"]}
             \cup {[mesh |-> o, vertices |-> VertexBuffer(o.nodes),
                    indices |-> IndexBuffer(o.faces, g), status |-> "ok"]
                        : g \in GarbageIndices}
        : o \in UNION {ReadOutcomes(Working(<<>>, <<>>, <<>>, <<>>), f, flag)
                            : flag \in BOOLEAN}}

\* void getMesh(const std::string & filename, std::vector<float> & vertices,
\*              std::vector<unsigned int> & indices)
getMesh ==
    /\ status = "ok"
    /\ \E o \in getMeshOutcomes(file, vertices, indices) :
        /\ vertices' = o.vertices
        /\ indices' = o.indices
        /\ status' = o.status
        /\ op' = [Called("getMesh") EXCEPT
                    !.ret = [nodes |-> o.mesh.nodes, faces |-> o.mesh.faces],
                    !.threw = o.mesh.threw, !.error = o.mesh.error,
                    !.what = o.mesh.what, !.format = o.mesh.format]
    /\ UNCHANGED <<nodes, faces, edgemap, revnodearray, vecFaceArea, pre>>
    /\ UNCHANGED <<treeVars, overlapVars, file>>

\* A file of the name is put in place.
SetFile(f) ==
    /\ status = "ok"
    /\ ~file.exists
    /\ file' = f
    /\ op' = Called("SetFile")
    /\ UNCHANGED <<nodes, faces, edgemap, revnodearray, vecFaceArea, status, pre>>
    /\ UNCHANGED <<treeVars, overlapVars, vertices, indices>>

\* The file of the name is taken away.
RemoveFile ==
    /\ status = "ok"
    /\ file.exists
    /\ file' = NoFile
    /\ op' = Called("RemoveFile")
    /\ UNCHANGED <<nodes, faces, edgemap, revnodearray, vecFaceArea, status, pre>>
    /\ UNCHANGED <<treeVars, overlapVars, vertices, indices>>

\* void Mesh::Write(const std::string & strFile, ...) const, on a mesh with
\* nodes and faces, every face with edges (a NetCDF dimension of size 0 is
\* not modelled), the parent indices none or one for each face.
Write ==
    /\ status = "ok"
    /\ Len(nodes) > 0 /\ Len(faces) > 0
    /\ \A i \in 1..Len(faces) : Len(faces[i]) > 0
    /\ Len(vecSourceFaceIx) \in {0, Len(faces)}
    /\ Len(vecTargetFaceIx) \in {0, Len(faces)}
    /\ file' = WriteResult(nodes, faces, vecSourceFaceIx, vecTargetFaceIx)
    /\ op' = Called("Write")
    /\ pre' = Snapshot
    /\ UNCHANGED <<nodes, faces, edgemap, revnodearray, vecFaceArea, status>>
    /\ UNCHANGED <<treeVars, overlapVars, vertices, indices>>

\* void Mesh::Clear()
Clear ==
    /\ status = "ok"
    /\ nodes' = <<>>
    /\ faces' = <<>>
    /\ edgemap' = <<>>
    /\ revnodearray' = <<>>
    /\ op' = Called("Clear")
    /\ pre' = Snapshot
    /\ UNCHANGED <<vecFaceArea, status>>
    /\ UNCHANGED <<treeVars, overlapVars, ioVars>>

\* void Mesh::Read(const std::string & strFile, bool fRemoveCoincidentNodes)
Read(fRemoveCoincidentNodes) ==
    /\ status = "ok"
    /\ \E o \in ReadOutcomes(Working(nodes, faces, vecSourceFaceIx, vecTargetFaceIx),
                              file, fRemoveCoincidentNodes) :
        /\ nodes' = o.nodes
        /\ faces' = o.faces
        /\ vecSourceFaceIx' = o.src
        /\ vecTargetFaceIx' = o.tgt
        /\ status' = o.status
        /\ op' = [Called("Read") EXCEPT
                    !.arg = <<fRemoveCoincidentNodes>>, !.threw = o.threw,
                    !.error = o.error, !.what = o.what, !.format = o.format]
    /\ pre' = Snapshot
    /\ UNCHANGED <<edgemap, revnodearray, vecFaceArea>>
    /\ UNCHANGED <<treeVars, meshOverlap, ioVars>>

\* ------------------------------------------------------------------------
\* The meshes the operations are run on
\* ------------------------------------------------------------------------
\* Node lists on a line, with coincident and nearly coincident nodes, and
\* the polygon through all the nodes, in both directions.
LinePoints == {<<x, 0, 0>> : x \in 0..MaxCoord}

LineNodeLists(least) == UNION {[1..n -> LinePoints] : n \in least..MaxNodes}

LineMeshes ==
    {[nodes |-> ns, cells |-> <<>>] : ns \in LineNodeLists(0)} \cup
    {[nodes |-> ns, cells |-> <<[k \in 1..Len(ns) |-> k - 1]>>] : ns \in LineNodeLists(1)} \cup
    {[nodes |-> ns, cells |-> <<[k \in 1..Len(ns) |-> k - 1],
                                [k \in 1..Len(ns) |-> Len(ns) - k]>>] : ns \in LineNodeLists(1)}

\* One or two faces of one to three nodes each over three nodes, which are
\* well separated or hold a pair of coincident nodes; of two faces the first
\* is a triangle, a face of two nodes, or a triangle with a repeated node.
CornerNodes == {<<<<0, 0, 0>>, <<2, 0, 0>>, <<0, 2, 0>>>>,
                <<<<0, 0, 0>>, <<2, 0, 0>>, <<2, 0, 0>>>>}

CornerCells == UNION {[1..d -> 0..2] : d \in 1..3}

FirstCells == {<<0, 1, 2>>, <<0, 1>>, <<0, 0, 1>>}

CornerMeshes ==
    {[nodes |-> ns, cells |-> <<c>>] : ns \in CornerNodes, c \in CornerCells} \cup
    {[nodes |-> ns, cells |-> <<c, d>>] : ns \in CornerNodes, c \in FirstCells, d \in CornerCells}

\* The cube: 8 nodes, node i at the corner whose coordinates are the bits of
\* i, and 6 quadrilaterals, each counter-clockwise seen from outside.
CubeMesh ==
    [nodes |-> [i \in 1..8 |->
                  <<2 * ((i - 1) % 2), 2 * (((i - 1) \div 2) % 2), 2 * ((i - 1) \div 4)>>],
     cells |-> << <<0, 2, 3, 1>>, <<4, 5, 7, 6>>, <<0, 1, 5, 4>>,
                  <<2, 6, 7, 3>>, <<0, 4, 6, 2>>, <<1, 3, 7, 5>> >>]

SmallMeshes == LineMeshes \cup CornerMeshes \cup {CubeMesh}

\* Strips of n faces over five nodes: triangles and quadrilaterals of three
\* different areas, in turn.
StripNodes == <<<<0, 0, 0>>, <<2, 0, 0>>, <<2, 2, 0>>, <<0, 2, 0>>, <<1, 0, 0>>>>

StripCells == << <<0, 4, 2>>, <<0, 1, 2>>, <<0, 1, 2, 3>> >>

StripMeshes ==
    {[nodes |-> StripNodes,
      cells |-> [i \in 1..n |-> StripCells[((i + shift) % 3) + 1]]]
        : n \in 0..MaxFaceCount, shift \in 0..2}

\* A mesh of up to two faces, and the overlap meshes of up to
\* MaxOverlapFaces faces: every face with a source-face index from -1 to 2,
\* the areas computed (1 or 2 for each face) or never computed.
FewFaceMeshes ==
    {[nodes |-> StripNodes, cells |-> [i \in 1..n |-> StripCells[i]]] : n \in 0..2}

OverlapMeshes ==
    UNION {{[faces |-> n, vecFaceArea |-> a, vecSourceFaceIx |-> ix]
              : a \in {<<>>} \cup [1..n -> 1..2], ix \in [1..n -> -1..2]}
            : n \in 0..MaxOverlapFaces}

\* Meshes of up to MaxOverlapFaces faces, no two faces alike, and the
\* parent index arrays of up to MaxOverlapFaces indices from 0 to 2.
DistinctFaceMeshes ==
    {[nodes |-> StripNodes,
      cells |-> [i \in 1..n |-> <<i % 5, (i + 1) % 5, (i + 2) % 5>>]]
        : n \in 0..MaxOverlapFaces}

ParentIndexArrays == UNION {[1..n -> 0..2] : n \in 0..MaxOverlapFaces}

\* Nodes on the sphere of radius Unit: eight on the circle of height z in
\* the order of their longitude, then the pole of that height's sign, then
\* a node off the sphere.
RingNodes(z) ==
    << <<2, 1, z>>, <<1, 2, z>>, <<-1, 2, z>>, <<-2, 1, z>>,
       <<-2, -1, z>>, <<-1, -2, z>>, <<1, -2, z>>, <<2, -1, z>>,
       <<0, 0, (3 * z) \div 2>> >>

NorthNodes == RingNodes(2)
SouthNodes == RingNodes(-2)

Reverse(seq) == [k \in 1..Len(seq) |-> seq[Len(seq) + 1 - k]]
Rotate(seq, r) == [k \in 1..Len(seq) |-> seq[((k - 1 + r) % Len(seq)) + 1]]

\* Triangles, quadrilaterals and hexagons through nodes of the ring in the
\* order of their longitude, from any first node on.
RingCells ==
    {Rotate(Ascending(S), r) :
        S \in {T \in SUBSET (0..7) : Cardinality(T) \in {3, 4, 6}}, r \in 0..2}

\* One face on the ring: by ascending longitude, which is counter-clockwise
\* seen from above the north pole, or by descending longitude.
RingMeshes ==
    {[nodes |-> ns, cells |-> <<c>>] : ns \in {NorthNodes, SouthNodes}, c \in RingCells} \cup
    {[nodes |-> ns, cells |-> <<Reverse(c)>>] : ns \in {NorthNodes, SouthNodes}, c \in RingCells}

\* One face of three to five positions over three nodes of the ring and the
\* pole, a node repeated or not.
KiteCells == UNION {[1..d -> {0, 3, 5, 8}] : d \in 3..5}

KiteMeshes == {[nodes |-> NorthNodes, cells |-> <<c>>] : c \in KiteCells}

\* A mesh with a node off the sphere.
OffSphereMeshes ==
    {[nodes |-> <<<<2, 1, 2>>, <<1, 2, 2>>, <<1, 2, 3>>>>, cells |-> <<<<0, 1, 2>>>>]}

\* Six nodes of different heights on the sphere of radius Unit, one face of
\* up to three positions over them (or one of two quadrilaterals), and the
\* points asked for.
HeightNodes ==
    << <<2, 2, 1>>, <<-1, 2, 2>>, <<-2, -2, 1>>, <<2, -1, -2>>, <<1, 2, -2>>, <<0, 0, 3>> >>

HeightCells ==
    UNION {[1..d -> 0..5] : d \in 0..3} \cup {<<0, 1, 2, 3>>, <<3, 2, 1, 0>>}

HeightMeshes == {[nodes |-> HeightNodes, cells |-> <<c>>] : c \in HeightCells}

QueryPoints ==
    {<<3, 0, 0>>, <<0, 3, 0>>, <<0, -3, 0>>, <<0, 0, 3>>, <<2, 2, 1>>,
     <<1, -2, 2>>, <<-2, 1, -2>>, <<-1, -2, -2>>}

\* ------------------------------------------------------------------------
\* Specifications
\* ------------------------------------------------------------------------
\* ------------------------------------------------------------------------
\* The files Read is run on
\* ------------------------------------------------------------------------
\* Four nodes further apart than the tolerance, and one within it of the
\* first.
ApartNodes == <<<<0, 0, 0>>, <<4, 0, 0>>, <<0, 4, 0>>, <<4, 4, 0>>>>
NearNodes == <<<<0, 0, 0>>, <<4, 0, 0>>, <<0, 4, 0>>, <<1, 0, 0>>>>

\* A triangle and a quadrilateral on the four nodes.
TwoCells == <<<<0, 1, 2>>, <<1, 3, 2, 0>>>>

\* A file with the data of every format: the Exodus file of the triangle
\* and the quadrilateral, two ICON cells, two SCRIP cells of three corners.
FullFile(ns) ==
    [WriteResult(ns, [i \in 1..2 |-> FaceOfNodes(TwoCells[i])], <<>>, <<>>) EXCEPT
        !.cells = <<<<1, 2, 3>>, <<2, 4, 3>>>>,
        !.corners = <<<<<<0, 0>>, <<1, 0>>, <<0, 1>>>>, <<<<1, 0>>, <<2, 0>>, <<0, 1>>>>>>]

SCRIPDimensions == {"grid_size", "grid_corners", "grid_rank"}

\* Every title with every choice among the dimensions of the SCRIP triad.
FormatFiles ==
    {[FullFile(ApartNodes) EXCEPT !.title = t, !.dims = d]
        : t \in {"tempest", "ICON grid description"}, d \in SUBSET SCRIPDimensions}

RequiredFields ==
    {"num_nodes", "num_elem", "num_el_blk", "coord"}
    \cup {FieldName(base, n) : base \in {"num_nod_per_el", "num_el_in_blk", "connect", "global_id"},
                                n \in 1..2}

\* A file of each format with one field missing; a file that cannot be
\* opened; Exodus files of every version.
LackingFiles ==
    {[FullFile(ApartNodes) EXCEPT !.missing = {x}] : x \in RequiredFields}
    \cup {[FullFile(ApartNodes) EXCEPT !.title = "ICON grid description", !.missing = {x}]
            : x \in {"vertex", "cell", "cartesian_x_vertices", "cartesian_y_vertices",
                      "cartesian_z_vertices", "vertex_of_cell"}}
    \cup {[FullFile(ApartNodes) EXCEPT !.title = "ICON grid description",
                                        !.missing = {"cell", "vertex_of_cell"}]}
    \cup {[FullFile(ApartNodes) EXCEPT !.dims = SCRIPDimensions, !.missing = {x}]
            : x \in {"grid_corner_lat", "grid_corner_lon"}}
    \cup {[FullFile(ApartNodes) EXCEPT !.exists = FALSE]}
    \cup {[FullFile(ApartNodes) EXCEPT !.version = v] : v \in {"none", "not float", "4.98"}}

\* Exodus files with one node id of a face, or one global id, replaced,
\* on nodes apart and on nodes with a coincident pair; ICON files with one
\* vertex of a cell replaced.
ReplacedIdFiles ==
    {[FullFile(ns) EXCEPT !.blocks[n].connect[1][k] = id]
        : ns \in {ApartNodes, NearNodes}, n \in 1..2, k \in {1, 3}, id \in {-1, 0, 5}}
    \cup {[FullFile(ns) EXCEPT !.blocks[n].global_id[1] = id]
            : ns \in {ApartNodes, NearNodes}, n \in 1..2, id \in {-1, 0, 3}}
    \cup {[FullFile(ApartNodes) EXCEPT !.title = "ICON grid description", !.cells[i][j] = v]
            : i \in 1..2, j \in 1..3, v \in {0, 5}}

\* The meshes written and read back: one to three faces, triangles and
\* quadrilaterals in any order, on nodes apart or with a coincident pair.
RoundTripCells == {<<0, 1, 2>>, <<1, 3, 2>>, <<1, 3, 2, 0>>, <<3, 1, 0, 2>>}

RoundTripMeshes ==
    {[nodes |-> ns, cells |-> cs]
        : ns \in {ApartNodes, NearNodes},
          cs \in UNION {[1..n -> RoundTripCells] : n \in 1..MaxWrittenFaces}}

\* The files rendered: Exodus files of one to MaxRenderFaces faces,
\* triangles, quadrilaterals, a pentagon and a hexagon, on six nodes apart.
HexagonNodes ==
    <<<<4, 0, 0>>, <<2, 3, 0>>, <<-2, 3, 0>>, <<-4, 0, 0>>, <<-2, -3, 0>>, <<2, -3, 0>>>>

RenderCells ==
    {<<0, 1, 2>>, <<3, 4, 5>>, <<0, 1, 2, 3>>, <<2, 3, 4, 5>>, <<0, 1, 2, 3, 4>>,
     <<0, 1, 2, 3, 4, 5>>}

RenderFiles ==
    {WriteResult(HexagonNodes, [i \in 1..Len(cs) |-> FaceOfNodes(cs[i])], <<>>, <<>>)
        : cs \in UNION {[1..n -> RenderCells] : n \in 1..MaxRenderFaces}}
    \cup {[FullFile(ApartNodes) EXCEPT !.exists = FALSE]}

\* A file of each format on nodes with a coincident pair.
CoincidentFiles ==
    {[FullFile(NearNodes) EXCEPT !.title = t, !.dims = d]
        : t \in {"tempest", "ICON grid description"}, d \in {{}, SCRIPDimensions}}

\* The Exodus file of the triangle and the quadrilateral with parent
\* indices, and the files read one after the other into one mesh: of each
\* format, with and without parent indices, on nodes apart or coincident.
ParentFile ==
    WriteResult(ApartNodes, [i \in 1..2 |-> FaceOfNodes(TwoCells[i])], <<0, 1>>, <<1, 0>>)

RereadFiles ==
    {[FullFile(ApartNodes) EXCEPT !.title = t, !.dims = d]
        : t \in {"tempest", "ICON grid description"}, d \in {{}, SCRIPDimensions}}
    \cup {ParentFile, FullFile(NearNodes), [FullFile(ApartNodes) EXCEPT !.version = "4.98"]}

ReadFiles == FormatFiles \cup LackingFiles \cup ReplacedIdFiles \cup CoincidentFiles

NextTree ==
    \/ \E node \in TreePoints : find(node)
    \/ \E node \in TreePoints, index \in 0..MaxIndex : find_or_insert(node, index)

SpecTree == Init /\ [][NextTree]_vars

NextMesh ==
    \/ \E m \in SmallMeshes : Populate(m)
    \/ RemoveCoincidentNodes
    \/ RemoveZeroEdges
    \/ ConstructEdgeMap
    \/ ConstructReverseNodeArray
    \/ CalculateFaceAreas

SpecMesh == Init /\ [][NextMesh]_vars

NextArea ==
    \/ \E m \in StripMeshes : Populate(m)
    \/ CalculateFaceAreas

SpecArea == Init /\ [][NextArea]_vars

NextOverlap ==
    \/ \E m \in FewFaceMeshes : Populate(m)
    \/ \E overlap \in OverlapMeshes : SetOverlap(overlap)
    \/ CalculateFaceAreasFromOverlap

SpecOverlap == Init /\ [][NextOverlap]_vars

NextExchange ==
    \/ \E m \in DistinctFaceMeshes : Populate(m)
    \/ \E src \in ParentIndexArrays, tgt \in ParentIndexArrays : SetParentIndices(src, tgt)
    \/ ExchangeFirstAndSecondMesh

SpecExchange == Init /\ [][NextExchange]_vars

\* The exchange on a mesh whose edge map, reverse node array and face areas
\* may have been built; the parent indices are an array and its reverse.
NextExchangeDerived ==
    \/ \E m \in DistinctFaceMeshes : Populate(m)
    \/ \E src \in ParentIndexArrays : SetParentIndices(src, Reverse(src))
    \/ ConstructEdgeMap
    \/ ConstructReverseNodeArray
    \/ CalculateFaceAreas
    \/ ExchangeFirstAndSecondMesh

SpecExchangeDerived == Init /\ [][NextExchangeDerived]_vars

NextValidate ==
    \/ \E m \in RingMeshes \cup KiteMeshes \cup OffSphereMeshes : Populate(m)
    \/ RemoveZeroEdges
    \/ Validate

SpecValidate == Init /\ [][NextValidate]_vars

NextContains ==
    \/ \E m \in HeightMeshes : Populate(m)
    \/ \E n0 \in QueryPoints : FaceContains(0, n0)

SpecContains == Init /\ [][NextContains]_vars

NextRead ==
    \/ \E f \in ReadFiles : SetFile(f)
    \/ \E fRemoveCoincidentNodes \in BOOLEAN : Read(fRemoveCoincidentNodes)

SpecRead == Init /\ [][NextRead]_vars

NextReread ==
    \/ \E f \in RereadFiles : SetFile(f)
    \/ RemoveFile
    \/ \E fRemoveCoincidentNodes \in BOOLEAN : Read(fRemoveCoincidentNodes)

SpecReread == Init /\ [][NextReread]_vars

NextRoundTrip ==
    \/ \E m \in RoundTripMeshes : Populate(m)
    \/ Write
    \/ Clear
    \/ \E fRemoveCoincidentNodes \in BOOLEAN : Read(fRemoveCoincidentNodes)

SpecRoundTrip == Init /\ [][NextRoundTrip]_vars

NextRender ==
    \/ \E f \in RenderFiles : SetFile(f)
    \/ getMesh

SpecRender == Init /\ [][NextRender]_vars

\* ------------------------------------------------------------------------
\* Claims on NodeTree
\* ------------------------------------------------------------------------
\* The data of the stored items within the minimum spacing of node.
DataInRange(tree, node) ==
    {tree[i].data : i \in {k \in 1..Len(tree) :
        Magnitude2(NodeMinus(tree[k].pos, node)) <= MinimumSpacing * MinimumSpacing}}

\* The smallest data in range, or the sentinel when nothing is in range.
SmallestInRange(tree, node) ==
    LET S == DataInRange(tree, node)
    IN  IF S = {} THEN InvalidNode ELSE CHOOSE m \in S : \A d \in S : m <= d

\* The same items inserted in every other order.
Reinsertions(tree) == {[k \in 1..Len(tree) |-> tree[o[k]]] : o \in Orderings(1..Len(tree))}

\* C4: find(p) returns the smallest index among the stored items within the
\* minimum spacing of p, and the sentinel InvalidNode when there is none; the
\* result is the same for every insertion order of the stored items and every
\* iteration order of the range query.
C4_FindSmallestInRange ==
    /\ \A p \in TreePoints : \A t \in Reinsertions(m_kdtree) :
           FindOutcomes(t, p) = {[ret |-> SmallestInRange(m_kdtree, p), failed |-> FALSE]}
    /\ treeOp.name = "find" =>
           /\ ~treeOp.failed
           /\ treeOp.ret = SmallestInRange(treeOp.pre, treeOp.node)

\* A find that had two items in range and returned the data of the one
\* inserted later, which is the smaller.
C4_Witness ==
    /\ treeOp.name = "find"
    /\ \E i, j \in 1..Len(treeOp.pre) :
          /\ i < j
          /\ treeOp.pre[j].data < treeOp.pre[i].data
          /\ {treeOp.pre[i].data, treeOp.pre[j].data} \subseteq DataInRange(treeOp.pre, treeOp.node)
          /\ treeOp.ret = treeOp.pre[j].data

\* C5: find_or_insert(p, i) returns find(p) and stores nothing when find(p) is
\* not the sentinel; otherwise it stores p tagged with i, adds one to the size
\* counter and returns i.
C5_FindOrInsert ==
    treeOp.name = "find_or_insert" =>
        LET f == SmallestInRange(treeOp.pre, treeOp.node)
        IN  /\ ~treeOp.failed
            /\ IF f # InvalidNode
               THEN /\ treeOp.ret = f
                    /\ m_kdtree = treeOp.pre
                    /\ m_size = treeOp.preSize
               ELSE /\ treeOp.ret = treeOp.index
                    /\ m_kdtree = Append(treeOp.pre, [pos |-> treeOp.node, data |-> treeOp.index])
                    /\ m_size = treeOp.preSize + 1

\* A find_or_insert that found an earlier item with another index and stored
\* nothing.
C5_Witness ==
    /\ treeOp.name = "find_or_insert"
    /\ treeOp.ret # treeOp.index
    /\ treeOp.ret # InvalidNode
    /\ m_kdtree = treeOp.pre
    /\ m_size >= 1

\* Whether node is farther than the minimum spacing from every stored item.
FarFromAll(tree, node) ==
    \A k \in 1..Len(tree) :
        Magnitude2(NodeMinus(tree[k].pos, node)) > MinimumSpacing * MinimumSpacing

\* C6: after any sequence of find_or_insert calls, find on the coordinates of
\* every point passed so far returns an index passed to some find_or_insert
\* call, never the sentinel; find on a point farther than the minimum spacing
\* from every stored point returns the sentinel.
C6_FindAfterInserts ==
    /\ \A q \in passed : \A out \in FindOutcomes(m_kdtree, q[1]) :
           /\ ~out.failed
           /\ out.ret # InvalidNode
           /\ out.ret \in {r[2] : r \in passed}
    /\ \A p \in TreePoints :
           FarFromAll(m_kdtree, p) =>
               FindOutcomes(m_kdtree, p) = {[ret |-> InvalidNode, failed |-> FALSE]}

\* Three points were passed, one of them was not stored because it is within
\* the spacing of a stored one, and some point is far from every stored item.
C6_Witness ==
    /\ Cardinality({q[1] : q \in passed}) = 3
    /\ Len(m_kdtree) = 2
    /\ \E q \in passed : \A k \in 1..Len(m_kdtree) : m_kdtree[k].pos # q[1]
    /\ \E p \in TreePoints : FarFromAll(m_kdtree, p)

\* ------------------------------------------------------------------------
\* Claims on Mesh
\* ------------------------------------------------------------------------
Dedup == "RemoveCoincidentNodes"

\* Whether two nodes are at least the reference tolerance apart.
Apart(a, b) == Magnitude2(NodeMinus(a, b)) >= ReferenceTolerance * ReferenceTolerance

\* C1: after RemoveCoincidentNodes on a node list with at least one node,
\* every two distinct nodes of the node list are at a distance of at least
\* the reference tolerance.
C1_NodesApartAfterDedup ==
    (op.name = Dedup /\ status = "ok" /\ Len(pre.nodes) >= 1) =>
        \A i, j \in 1..Len(nodes) : i # j => Apart(nodes[i], nodes[j])

\* Three nodes in a chain, each closer than the tolerance to the next: the
\* middle one was merged and the outer two, exactly the tolerance apart,
\* were kept.
C1_Witness ==
    /\ op.name = Dedup
    /\ status = "ok"
    /\ Len(pre.nodes) = 3
    /\ ~Apart(pre.nodes[1], pre.nodes[2])
    /\ ~Apart(pre.nodes[2], pre.nodes[3])
    /\ nodes = <<pre.nodes[1], pre.nodes[3]>>

\* Whether every edge of every face ends at nodes of a list of n nodes.
FacesValid(fs, n) ==
    \A f \in 1..Len(fs) : \A e \in 1..Len(fs[f]) :
        fs[f][e][1] \in 0..(n - 1) /\ fs[f][e][2] \in 0..(n - 1)

\* The nodes (from 0) among the first k of ns that are not merged: a node
\* is merged when it is closer than the tolerance to an earlier node that
\* is not merged.
RECURSIVE NotMerged(_, _)
NotMerged(ns, k) ==
    IF k = 0 THEN {}
    ELSE LET earlier == NotMerged(ns, k - 1)
         IN  IF \E u \in earlier : ~Apart(ns[u + 1], ns[k])
             THEN earlier
             ELSE earlier \cup {k - 1}

\* The nodes of ns that are not merged, in their order.
RECURSIVE KeptInOrder(_, _, _)
KeptInOrder(ns, kept, k) ==
    IF k > Len(ns) THEN <<>>
    ELSE IF (k - 1) \in kept
    THEN <<ns[k]>> \o KeptInOrder(ns, kept, k + 1)
    ELSE KeptInOrder(ns, kept, k + 1)

\* C2: if every face edge endpoint is a valid node index before
\* RemoveCoincidentNodes, then after it every face edge endpoint is a valid
\* index into the new node list, and the new node list consists of the N
\* minus (number of merged nodes) nodes that were not merged, each once, in
\* their original order.
C2_DedupKeepsFacesValid ==
    (op.name = Dedup /\ status = "ok" /\ FacesValid(pre.faces, Len(pre.nodes))) =>
        LET kept == NotMerged(pre.nodes, Len(pre.nodes))
        IN  /\ FacesValid(faces, Len(nodes))
            /\ Len(nodes) = Len(pre.nodes) - (Len(pre.nodes) - Cardinality(kept))
            /\ nodes = KeptInOrder(pre.nodes, kept, 1)

\* C2 for the node lists with at least one node.
C2_HoldsWithNodes ==
    Len(pre.nodes) >= 1 => C2_DedupKeepsFacesValid

\* A face of three nodes of which the last two were coincident: one node
\* was removed and the face refers to the two nodes that are left.
C2_WitnessWithNodes ==
    /\ op.name = Dedup
    /\ Len(pre.nodes) = 3
    /\ Len(nodes) = 2
    /\ Len(faces) >= 1
    /\ pre.faces[1] = <<<<0, 1>>, <<1, 2>>, <<2, 0>>>>
    /\ faces[1] = <<<<0, 1>>, <<1, 1>>, <<1, 0>>>>

\* C3: each of RemoveCoincidentNodes, RemoveZeroEdges, ConstructEdgeMap,
\* ConstructReverseNodeArray and CalculateFaceAreas, called again right after
\* a call of itself, leaves nodes, faces, edge map, reverse node array and
\* face areas as the first call left them.
C3_Idempotent ==
    [][(op'.again /\ op'.name # "Populate" /\ status' = "ok") =>
            /\ nodes' = nodes
            /\ faces' = faces
            /\ edgemap' = edgemap
            /\ revnodearray' = revnodearray
            /\ vecFaceArea' = vecFaceArea]_vars

\* RemoveCoincidentNodes was called again on a mesh with faces, an edge map
\* and face areas, from which a first call had removed a node.
C3_Witness ==
    /\ op.name = Dedup
    /\ op.again
    /\ Len(nodes) = 2
    /\ Len(faces) >= 1
    /\ \E f \in 1..Len(faces) : \E e \in 1..Len(faces[f]) : faces[f][e][1] = faces[f][e][2]
    /\ edgemap # <<>>
    /\ vecFaceArea # <<>>

\* The faces recorded in the entry that a lookup of the key (a, b) finds.
FacesOfKey(map, a, b) ==
    LET same == {n \in 1..Len(map) :
                    ~EdgeLess(map[n].edge, <<a, b>>) /\ ~EdgeLess(<<a, b>>, map[n].edge)}
    IN  IF same = {} THEN <<>> ELSE map[CHOOSE n \in same : TRUE].faces

\* The positions (from 0) of a face whose node is a and whose next node is b.
PositionsFromTo(face, a, b) ==
    {k \in 0..(Len(face) - 1) :
        FaceNode(face, k) = a /\ FaceNode(face, (k + 1) % Len(face)) = b}

NodeIds == 0..(Len(nodes) - 1)

Occurrences(seq, x) == Cardinality({n \in 1..Len(seq) : seq[n] = x})

IsCube ==
    /\ nodes = CubeMesh.nodes
    /\ faces = [i \in 1..6 |-> FaceOfNodes(CubeMesh.cells[i])]

C9_ReverseNodeArray ==
    op.name = "ConstructReverseNodeArray" =>
        /\ Len(revnodearray) = Len(nodes)
        /\ \A n \in NodeIds :
              revnodearray[n + 1] =
                  {i \in 0..(Len(faces) - 1) :
                      \E e \in 1..Len(faces[i + 1]) : faces[i + 1][e][1] = n}
        /\ IsCube => \A n \in NodeIds : Cardinality(revnodearray[n + 1]) = 3

\* The reverse node array was built again after RemoveCoincidentNodes had
\* removed a node, and a face holds a zero edge.
C9_Witness ==
    /\ op.name = "ConstructReverseNodeArray"
    /\ Len(revnodearray) = 2
    /\ Len(pre.nodes) = 2
    /\ \E f \in 1..Len(faces) : \E e \in 1..Len(faces[f]) : faces[f][e][1] = faces[f][e][2]
    /\ revnodearray[2] # {}

\* ------------------------------------------------------------------------
\* Claims on the accumulated area
\* ------------------------------------------------------------------------
\* The plain sum of a sequence, from left to right.
RECURSIVE SumFrom(_, _, _)
SumFrom(seq, k, acc) ==
    IF k > Len(seq) THEN acc ELSE SumFrom(seq, k + 1, acc + seq[k])

\* C10: for every number of faces, CalculateFaceAreas returns the sum of all
\* the entries of the area array it has computed, each counted once: the
\* reduction in blocks of 10 gives the total of the plain sum from left to
\* right, and 0 for a mesh without faces.
C10_AccumulatedArea ==
    op.name = "CalculateFaceAreas" =>
        /\ Len(vecFaceArea) = Len(faces)
        /\ \A i \in 1..Len(faces) : vecFaceArea[i] = CalculateFaceArea(faces[i], nodes)
        /\ op.ret = SumFrom(vecFaceArea, 1, 0)
        /\ Len(faces) = 0 => op.ret = 0

\* The areas of more than 100 faces were accumulated, in three passes, the
\* last block of the first pass being a short one.
C10_Witness ==
    /\ op.name = "CalculateFaceAreas"
    /\ Len(faces) > Jump * Jump
    /\ Len(faces) % Jump # 0
    /\ op.ret = SumFrom(vecFaceArea, 1, 0)
    /\ op.ret > 0

\* ------------------------------------------------------------------------
\* Claims on CalculateFaceAreasFromOverlap
\* ------------------------------------------------------------------------
FromOverlap == "CalculateFaceAreasFromOverlap"

\* The sum of the areas of the overlap faces from face k on whose source
\* face is in S.
RECURSIVE OverlapAreaOf(_, _, _)
OverlapAreaOf(overlap, S, k) ==
    IF k > overlap.faces THEN 0
    ELSE (IF overlap.vecSourceFaceIx[k] \in S THEN overlap.vecFaceArea[k] ELSE 0)
            + OverlapAreaOf(overlap, S, k + 1)

\* C11: when CalculateFaceAreasFromOverlap succeeds, area entry s is the sum
\* of the areas of the overlap faces whose source-face index is s, and the
\* value returned is the sum of all overlap areas and the sum of the new
\* area entries.
C11_AreasFromOverlap ==
    (op.name = FromOverlap /\ ~op.threw /\ status = "ok") =>
        /\ Len(vecFaceArea) = Len(faces)
        /\ \A s \in 0..(Len(faces) - 1) :
              vecFaceArea[s + 1] = OverlapAreaOf(meshOverlap, {s}, 1)
        /\ op.ret = OverlapAreaOf(meshOverlap, Int, 1)
        /\ op.ret = SumFrom(vecFaceArea, 1, 0)

\* A successful call where two overlap faces share a source face and
\* another source face has no overlap face.
C11_Witness ==
    /\ op.name = FromOverlap /\ ~op.threw /\ status = "ok"
    /\ Len(faces) = 2
    /\ \E i, j \in 1..meshOverlap.faces :
          i # j /\ meshOverlap.vecSourceFaceIx[i] = meshOverlap.vecSourceFaceIx[j]
    /\ \E s \in 1..2 : vecFaceArea[s] = 0
    /\ op.ret >= 3

\* The source-face indices of the overlap mesh that are not face indices
\* of this mesh.
OutOfRange(overlap, n) ==
    {i \in 1..overlap.faces :
        overlap.vecSourceFaceIx[i] < 0 \/ overlap.vecSourceFaceIx[i] >= n}

\* C12: CalculateFaceAreasFromOverlap fails when the area array of the
\* overlap mesh is empty and when a source-face index is negative or not
\* below the number of faces of this mesh; it never addresses the area
\* array with such an index.
C12_OverlapFails ==
    op.name = FromOverlap =>
        /\ status = "ok"
        /\ (Len(meshOverlap.vecFaceArea) = 0 \/ OutOfRange(meshOverlap, Len(faces)) # {})
              => op.threw
        /\ Len(meshOverlap.vecFaceArea) = 0
              => op.threw /\ op.error = "MeshOverlap Face Areas have not been calculated"

\* A failed call on computed overlap areas with a negative source-face
\* index behind a valid one.
C12_Witness ==
    /\ op.name = FromOverlap /\ op.threw
    /\ meshOverlap.faces >= 2
    /\ Len(meshOverlap.vecFaceArea) > 0
    /\ meshOverlap.vecSourceFaceIx[1] \in 0..(Len(faces) - 1)
    /\ meshOverlap.vecSourceFaceIx[2] < 0

\* ------------------------------------------------------------------------
\* Claims on ExchangeFirstAndSecondMesh
\* ------------------------------------------------------------------------
Exchange == "ExchangeFirstAndSecondMesh"

\* The triple (face, source, target) at position k.
Triple(fs, src, tgt, k) == <<fs[k], src[k], tgt[k]>>

\* p is a permutation of 1..n that puts the old triples in ascending order
\* of their old target index, triples of an equal index in their old order.
IsStableOrder(p, tgt, n) ==
    /\ \A k, l \in 1..n : k # l => p[k] # p[l]
    /\ \A k, l \in 1..n : k < l =>
          \/ tgt[p[k]] < tgt[p[l]]
          \/ tgt[p[k]] = tgt[p[l]] /\ p[k] < p[l]

\* C13: with faces and both parent index arrays of one length,
\* ExchangeFirstAndSecondMesh leaves the old (face, source, target) triples
\* stably sorted by ascending old target index, source and target swapped
\* in each.
C13_ExchangeStableSort ==
    [][(op'.name = Exchange /\ Len(faces) = Len(vecSourceFaceIx)
            /\ Len(faces) = Len(vecTargetFaceIx)) =>
        LET n == Len(faces)
        IN  /\ ~op'.threw
            /\ Len(faces') = n /\ Len(vecSourceFaceIx') = n /\ Len(vecTargetFaceIx') = n
            /\ \E p \in [1..n -> 1..n] :
                  /\ IsStableOrder(p, vecTargetFaceIx, n)
                  /\ \A k \in 1..n :
                        Triple(faces', vecSourceFaceIx', vecTargetFaceIx', k)
                          = <<faces[p[k]], vecTargetFaceIx[p[k]], vecSourceFaceIx[p[k]]>>
            /\ \A k \in 1..(n - 1) : vecSourceFaceIx'[k] <= vecSourceFaceIx'[k + 1]]_vars

\* After an exchange two faces of one old target index stand next to each
\* other behind a face that stood behind them before: the face populated
\* at position i starts at node i.
C13_Witness ==
    /\ op.name = Exchange /\ ~op.threw
    /\ Len(faces) = 3
    /\ vecSourceFaceIx[1] < vecSourceFaceIx[2]
    /\ vecSourceFaceIx[2] = vecSourceFaceIx[3]
    /\ FaceNode(faces[1], 0) = 3
    /\ FaceNode(faces[2], 0) = 1
    /\ FaceNode(faces[3], 0) = 2
    /\ vecTargetFaceIx[2] # vecTargetFaceIx[3]

\* ------------------------------------------------------------------------
\* Claims on Validate
\* ------------------------------------------------------------------------
Clockwise == "Mesh validation failed: Clockwise or concave face detected"

\* The list of the first nodes of the edges of a face.
NodesOfFace(face) == [k \in 1..Len(face) |-> face[k][1]]

\* The mesh holds one face on the ring of the given nodes.
OnRing(ns) ==
    /\ nodes = ns
    /\ Len(faces) = 1
    /\ \E c \in RingCells : NodesOfFace(faces[1]) \in {c, Reverse(c)}

\* The face runs by ascending longitude.
IsAscending(face) == \E c \in RingCells : NodesOfFace(face) = c

\* Seen from outside the sphere, ascending longitude is counter-clockwise
\* on the northern ring and clockwise on the southern one.
CounterClockwise ==
    \/ OnRing(NorthNodes) /\ IsAscending(faces[1])
    \/ OnRing(SouthNodes) /\ ~IsAscending(faces[1])

\* C14: on unit nodes, Validate fails with 'Clockwise or concave face
\* detected' for a triangle, quadrilateral or hexagon wound clockwise seen
\* from outside the sphere, and passes for the same face wound
\* counter-clockwise.
C14_OrientationGate ==
    (op.name = "Validate" /\ (OnRing(NorthNodes) \/ OnRing(SouthNodes))) =>
        IF CounterClockwise THEN ~op.threw
        ELSE op.threw /\ op.error = Clockwise

\* A clockwise hexagon on the southern ring has failed.
C14_Witness ==
    /\ op.name = "Validate" /\ OnRing(SouthNodes)
    /\ Len(faces[1]) = 6
    /\ ~CounterClockwise
    /\ op.error = Clockwise

\* C20: a face passes Validate exactly when the face without its zero
\* edges passes: every edge that is not a zero edge is checked against the
\* next edge in cyclic order that is not a zero edge.
C20_ZeroEdgesSkipped ==
    op.name = "Validate" =>
        op.threw = (ValidateResult(nodes, RemoveZeroEdgesResult(faces)) # "")

\* ------------------------------------------------------------------------
\* Claims on Face::Contains
\* ------------------------------------------------------------------------
\* The pairs of cyclically consecutive nodes of a face, by position.
NodePair(face, k) ==
    <<nodes[face[k][1] + 1], nodes[face[(k % Len(face)) + 1][1] + 1]>>

\* The pair is skipped: both nodes strictly above or strictly below the
\* point, both of one height, or a negative quotient of the 2-D cross term
\* and the dot term of the point and the intersection of the arc with the
\* plane of the point. The intersection is n1 + t (n2 - n1) for
\* t = (p.z - n1.z) / (n2.z - n1.z); cross and dot term are taken times
\* n2.z - n1.z.
IsSkipped(p, n1, n2) ==
    \/ n1[3] > p[3] /\ n2[3] > p[3]
    \/ n1[3] < p[3] /\ n2[3] < p[3]
    \/ n1[3] = n2[3]
    \/ LET d == n2[3] - n1[3]
           t == p[3] - n1[3]
           x == (d - t) * n1[1] + t * n2[1]
           y == (d - t) * n1[2] + t * n2[2]
           cross == p[1] * y - p[2] * x
           dot == p[1] * x + p[2] * y + p[3] * d * p[3]
       IN  IF dot = 0 THEN cross * d < 0 ELSE cross * dot < 0

Counted(face, p, up) ==
    {k \in 1..Len(face) :
        LET n == NodePair(face, k)
        IN  ~IsSkipped(p, n[1], n[2]) /\ ((n[1][3] < n[2][3]) = up)}

\* C18: Contains returns true exactly when the pairs counted +1 outnumber
\* the pairs counted -1: a pair that is not skipped counts +1 when n1.z <
\* n2.z and -1 otherwise; a face without edges does not contain the point.
C18_ContainsSignedCount ==
    op.name = "Contains" =>
        LET face == faces[op.arg[1] + 1]
            p == op.arg[2]
        IN  /\ (op.ret = 1) =
                  (Cardinality(Counted(face, p, TRUE)) > Cardinality(Counted(face, p, FALSE)))
            /\ Len(face) = 0 => op.ret = 0

\* Contains has returned false on an odd number of counted pairs.
C18_Witness ==
    /\ op.name = "Contains" /\ op.ret = 0
    /\ LET face == faces[op.arg[1] + 1]
           p == op.arg[2]
       IN  /\ Counted(face, p, TRUE) = {}
           /\ Cardinality(Counted(face, p, FALSE)) = 1

\* ------------------------------------------------------------------------
\* Read: the format
\* ------------------------------------------------------------------------
\* C15: Read of a file that opens takes the ICON branch when the title is
\* 'ICON grid description', whatever the dimensions; otherwise the SCRIP
\* branch when grid_size, grid_corners and grid_rank are all there;
\* otherwise, also with one or two of the three, the Exodus branch.
C15_FormatPrecedence ==
    (op.name = "Read" /\ file.exists) =>
        op.format = IF file.title = "ICON grid description" THEN "ICON"
                    ELSE IF SCRIPDimensions \subseteq file.dims THEN "SCRIP"
                    ELSE "Exodus"

\* A file with the ICON title and the three SCRIP dimensions has been read
\* as ICON: the faces are its cells.
C15_Witness ==
    /\ op.name = "Read" /\ ~op.threw /\ op.format = "ICON"
    /\ file.title = "ICON grid description" /\ SCRIPDimensions \subseteq file.dims
    /\ faces = [i \in 1..Len(file.cells) |->
                    FaceOfNodes([j \in 1..Len(file.cells[i]) |-> file.cells[i][j] - 1])]

\* ------------------------------------------------------------------------
\* Read: the errors of the Exodus branch
\* ------------------------------------------------------------------------
\* The file lacks a required field, or holds a node id outside
\* [1, num_nodes] or a global id outside [1, num_elem].
LacksRequiredField(f) == f.missing \cap RequiredFields # {}

HasNodeIdOutOfRange(f) ==
    \E n \in 1..Len(f.blocks) : \E i \in 1..Len(f.blocks[n].connect) :
        \E k \in 1..Len(f.blocks[n].connect[i]) :
            f.blocks[n].connect[i][k] \notin 1..Len(f.coord)

HasGlobalIdOutOfRange(f) ==
    \E n \in 1..Len(f.blocks) : \E i \in 1..Len(f.blocks[n].global_id) :
        f.blocks[n].global_id[i] \notin 1..f.num_elem

\* C16: Read of an Exodus file that lacks a required dimension or
\* variable, or has a node id outside [1, num_nodes] or a global id outside
\* [1, num_elem], ends in an exception, with the process alive and no
\* index outside the mesh left in a face.
C16_ExodusErrorsFatal ==
    (/\ op.name = "Read" /\ op.format = "Exodus" /\ file.version = "5.00"
     /\ \/ LacksRequiredField(file)
        \/ HasNodeIdOutOfRange(file)
        \/ HasGlobalIdOutOfRange(file))
    => op.threw /\ status = "ok"

\* The part of C16 on missing fields: the exception names the file and the
\* field.
C16_MissingFieldNamed ==
    (/\ op.name = "Read" /\ op.format = "Exodus" /\ file.version = "5.00"
     /\ LacksRequiredField(file))
    => /\ op.threw /\ status = "ok"
       /\ op.what = <<strFile, CHOOSE x \in file.missing : TRUE>>
           \/ (file.missing = {"coord"} /\ op.what = <<strFile>> 
               /\ op.error = "Exodus Grid file \"%s\" is missing variable \"coord\"")
           \/ (file.missing \subseteq {"num_nodes", "num_elem", "num_el_blk"}
               /\ op.what = <<strFile>>)

\* ------------------------------------------------------------------------
\* Write and Read
\* ------------------------------------------------------------------------
\* The faces of a mesh of the family, and whether the file is the one Write
\* produces from the mesh.
FacesOf(m) == [i \in 1..Len(m.cells) |-> FaceOfNodes(m.cells[i])]

IsWrittenFrom(m) == file = WriteResult(m.nodes, FacesOf(m), <<>>, <<>>)

AllApart(ns) == \A i, j \in 1..Len(ns) : i # j => Apart(ns[i], ns[j])

\* The mesh is the mesh m.
Reproduces(m) == nodes = m.nodes /\ faces = FacesOf(m)

\* The mesh is the mesh m with coincident nodes merged: fewer nodes, all
\* apart, as many faces, every face with as many nodes, each within the
\* tolerance of the node it had.
ReproducesMerged(m) ==
    /\ Len(nodes) < Len(m.nodes)
    /\ AllApart(nodes)
    /\ Len(faces) = Len(m.cells)
    /\ \A i \in 1..Len(faces) :
        /\ Len(faces[i]) = Len(m.cells[i])
        /\ \A k \in 1..Len(faces[i]) :
            /\ FaceNode(faces[i], k - 1) \in 0..(Len(nodes) - 1)
            /\ ~Apart(nodes[FaceNode(faces[i], k - 1) + 1], m.nodes[m.cells[i][k] + 1])

Primitive(f) == [k \in 1..4 |-> indices[4 * (f - 1) + k]]

NodeIndexList(face) == [k \in 1..Len(face) |-> ToUnsigned(FaceNode(face, k - 1))]

\* Vertex v is made from node v: x, z, y and two zeros.
VerticesFromNodes(ns) ==
    /\ Len(vertices) = 5 * Len(ns)
    /\ \A v \in 1..Len(ns) :
        [c \in 1..5 |-> vertices[5 * (v - 1) + c]] = <<ns[v][1], ns[v][3], ns[v][2], 0, 0>>

\* C19: after getMesh on a file that reads, the process is alive, vertex v
\* is made from node v of the mesh of the file, and the primitive of every
\* face is the ordered list of all node indices of the face.
C19_FacePrimitives ==
    (op.name = "getMesh" /\ ~op.threw) =>
        /\ status = "ok"
        /\ VerticesFromNodes(op.ret.nodes)
        /\ \A f \in 1..Len(op.ret.faces) : Primitive(f) = NodeIndexList(op.ret.faces[f])

\* The part of C19 that holds: the vertices wherever getMesh returns, and
\* the primitives of the faces of four edges.
C19_QuadPrimitives ==
    (op.name = "getMesh" /\ ~op.threw /\ status = "ok") =>
        /\ VerticesFromNodes(op.ret.nodes)
        /\ Len(indices) = 4 * Len(op.ret.faces)
        /\ \A f \in 1..Len(op.ret.faces) :
            Len(op.ret.faces[f]) = 4 => Primitive(f) = NodeIndexList(op.ret.faces[f])

\* ------------------------------------------------------------------------
\* RemoveCoincidentNodes: the order of the pass
\* ------------------------------------------------------------------------
\* The nodes (from 0) kept as uniques before node k is looked at, and the
\* new index of a kept node: the number of kept nodes before it.
KeptBefore(k) == {u \in Range(op.vecUniques) : u < k}

NewIndexOf(u) == Cardinality(KeptBefore(u))

Distance2(ns, a, b) == Magnitude2(NodeMinus(ns[a + 1], ns[b + 1]))

\* The kept nodes before k that are nearest to node k.
NearestKept(ns, k) ==
    {u \in KeptBefore(k) : \A w \in KeptBefore(k) : Distance2(ns, k, u) <= Distance2(ns, k, w)}

\* C21: RemoveCoincidentNodes on a mesh with nodes, whose faces refer to
\* nodes of the list, keeps node 0; merges node k > 0 exactly when it is
\* closer than the tolerance to the nearest node kept before it, and then
\* gives it the new index of such a nearest kept node; otherwise keeps it,
\* with the number of nodes kept before it as its new index. The node list
\* becomes the kept nodes in their order and every reference to a node in
\* a face becomes the new index of that node.
C21_StreamingPass ==
    (op.name = Dedup /\ status = "ok" /\ Len(pre.nodes) >= 1
        /\ FacesValid(pre.faces, Len(pre.nodes))) =>
        /\ 0 \in Range(op.vecUniques)
        /\ Len(op.vecNewNodeIndex) = Len(pre.nodes)
        /\ \A k \in 0..(Len(pre.nodes) - 1) :
            IF k \in Range(op.vecUniques)
            THEN /\ op.vecNewNodeIndex[k + 1] = NewIndexOf(k)
                 /\ \A u \in KeptBefore(k) : Apart(pre.nodes[k + 1], pre.nodes[u + 1])
            ELSE \E u \in NearestKept(pre.nodes, k) :
                    /\ ~Apart(pre.nodes[k + 1], pre.nodes[u + 1])
                    /\ op.vecNewNodeIndex[k + 1] = NewIndexOf(u)
        /\ Len(nodes) = Cardinality(Range(op.vecUniques))
        /\ \A u \in Range(op.vecUniques) : nodes[NewIndexOf(u) + 1] = pre.nodes[u + 1]
        /\ Len(faces) = Len(pre.faces)
        /\ \A f \in 1..Len(faces) :
            /\ Len(faces[f]) = Len(pre.faces[f])
            /\ \A e \in 1..Len(faces[f]) : \A c \in 1..2 :
                faces[f][e][c] = op.vecNewNodeIndex[pre.faces[f][e][c] + 1]

\* The chain A, B, C in a face <<A, B, C>>: B was merged into A, C was kept
\* although it is within the tolerance of B, and the face is <<A, A, C>>
\* under the new indices.
C21_Witness ==
    /\ op.name = Dedup /\ status = "ok"
    /\ pre.nodes = <<<<0, 0, 0>>, <<1, 0, 0>>, <<2, 0, 0>>>>
    /\ op.vecUniques = <<0, 2>>
    /\ op.vecNewNodeIndex = <<0, 0, 1>>
    /\ Len(pre.faces) >= 1 /\ pre.faces[1] = FaceOfNodes(<<0, 1, 2>>)
    /\ faces[1] = FaceOfNodes(<<0, 0, 1>>)

\* ------------------------------------------------------------------------
\* Read: the deduplication pass
\* ------------------------------------------------------------------------
\* The number of nodes the file gives the mesh before any deduplication.
NodesOfFile(f, format) ==
    IF format = "SCRIP"
    THEN Len(f.corners) * (IF Len(f.corners) = 0 THEN 0 ELSE Len(f.corners[1]))
    ELSE Len(f.coord)

\* The file has no field missing and no id out of range.
IsSoundFile(f) ==
    /\ f.exists /\ f.missing = {} /\ f.version \in {"4.98", "5.00"}
    /\ ~HasNodeIdOutOfRange(f) /\ ~HasGlobalIdOutOfRange(f)
    /\ \A i \in 1..Len(f.cells) : \A j \in 1..Len(f.cells[i]) :
        f.cells[i][j] \in 1..Len(f.coord)

\* C22: after a Read of an Exodus or SCRIP file the nodes have been
\* deduplicated exactly when fRemoveCoincidentNodes is true: with the flag
\* no two nodes are within the tolerance, without it the mesh has every
\* node of the file; after a Read of an ICON file it has every node too.
C22_DedupOnRequest ==
    (op.name = "Read" /\ ~op.threw /\ status = "ok" /\ IsSoundFile(file)) =>
        IF op.format # "ICON" /\ op.arg[1]
        THEN AllApart(nodes)
        ELSE Len(nodes) = NodesOfFile(file, op.format)

\* The part of C22 that holds: the SCRIP and the ICON branch.
C22_DedupOnRequestSCRIP ==
    (op.name = "Read" /\ ~op.threw /\ status = "ok" /\ IsSoundFile(file)
        /\ op.format # "Exodus") =>
        IF op.format # "ICON" /\ op.arg[1]
        THEN AllApart(nodes)
        ELSE Len(nodes) = NodesOfFile(file, op.format)

\* ------------------------------------------------------------------------
\* Read: what the mesh held before
\* ------------------------------------------------------------------------
\* C23: a Read that returns leaves what a Read of the same file with the
\* same flag into an empty mesh can leave: the same nodes, faces and
\* parent indices, and an exception in the one exactly when in the other.
C23_ReadIntoFresh ==
    (op.name = "Read" /\ status = "ok") =>
        \E o \in ReadOutcomes(Working(<<>>, <<>>, <<>>, <<>>), file, op.arg[1]) :
            /\ o.threw = op.threw
            /\ ~op.threw =>
                /\ o.nodes = nodes /\ o.faces = faces
                /\ o.src = vecSourceFaceIx /\ o.tgt = vecTargetFaceIx

\* The part of C23 that holds: the Read into an empty mesh without parent
\* indices.
C23_ReadIntoEmpty ==
    (op.name = "Read" /\ status = "ok" /\ pre.nodes = <<>> /\ pre.faces = <<>>
        /\ ~op.threw /\ op.format = "Exodus" /\ ~file.blocks[1].hasParentA) =>
            vecSourceFaceIx = <<>>

\* ------------------------------------------------------------------------
\* Read: the face slots of the elements
\* ------------------------------------------------------------------------
\* Element i (from 1) of block n of the file as a face, and the elements of
\* the file.
ElementFace(f, n, i) ==
    FaceOfNodes([k \in 1..Len(f.blocks[n].connect[i]) |-> f.blocks[n].connect[i][k] - 1])

Elements(f) == {<<n, i>> \in (1..Len(f.blocks)) \X (1..f.num_elem) : i <= Len(f.blocks[n].connect)}

\* An Exodus file without a flaw, its nodes apart, has been read.
IsExodusRead ==
    /\ op.name = "Read" /\ op.format = "Exodus" /\ ~op.threw /\ status = "ok"
    /\ IsSoundFile(file) /\ AllApart(file.coord)
    /\ Cardinality(Elements(file)) = file.num_elem

\* C24: after Read of an Exodus file whose blocks together hold num_elem
\* elements, every element of every block is a face of the mesh and no
\* face slot is left without an element; with global ids, element i of
\* block n is the face at index global_idN[i] - 1.
C24_EveryElementOwnSlot ==
    IsExodusRead =>
        /\ Len(faces) = file.num_elem
        /\ \A e \in Elements(file) : \E x \in 1..Len(faces) : faces[x] = ElementFace(file, e[1], e[2])
        /\ \A x \in 1..Len(faces) : \E e \in Elements(file) : faces[x] = ElementFace(file, e[1], e[2])
        /\ file.version = "5.00" =>
                \A e \in Elements(file) :
                    faces[file.blocks[e[1]].global_id[e[2]]] = ElementFace(file, e[1], e[2])

\* The part of C24 that holds: files with global ids.
C24_GlobalIdSlots ==
    (IsExodusRead /\ file.version = "5.00") =>
        /\ Len(faces) = file.num_elem
        /\ \A e \in Elements(file) :
                faces[file.blocks[e[1]].global_id[e[2]]] = ElementFace(file, e[1], e[2])

\* ------------------------------------------------------------------------
\* What RemoveCoincidentNodes and RemoveZeroEdges leave alone
\* ------------------------------------------------------------------------
\* C25: a call of RemoveCoincidentNodes or RemoveZeroEdges that returns
\* leaves the edge map, the reverse node array and the face areas exactly
\* as they were, whatever it does to nodes and faces.
C25_DerivedStateKept ==
    [][(op'.name \in {Dedup, "RemoveZeroEdges"} /\ status' = "ok") =>
            /\ edgemap' = edgemap
            /\ revnodearray' = revnodearray
            /\ vecFaceArea' = vecFaceArea]_vars

\* RemoveZeroEdges has shortened a face of a mesh with an edge map, a
\* reverse node array and face areas, after RemoveCoincidentNodes had
\* merged a node: the edge map and the reverse node array are no longer
\* what a rerun would give.
C25_Witness ==
    /\ op.name = "RemoveZeroEdges" /\ faces # pre.faces
    /\ edgemap # <<>> /\ revnodearray # <<>> /\ vecFaceArea # <<>>
    /\ edgemap # ConstructEdgeMapResult(<<>>, faces)
    /\ revnodearray # ConstructReverseNodeArrayResult(<<>>, nodes, faces)

\* ------------------------------------------------------------------------
\* Read: an ICON file without the dimension cell
\* ------------------------------------------------------------------------
\* The exceptions of the ICON branch that name the dimension cell.
NamesCell ==
    {"ICON grid file \"%s\" missing dimension \"cell\"",
     "ICON grid file \"%s\" variable \"vertex_of_cell\" dimension 1 must have name \"cell\""}

\* An ICON file that has the dimension vertex and lacks the dimension cell
\* has been read.
IsReadWithoutCell ==
    /\ op.name = "Read" /\ op.format = "ICON"
    /\ "cell" \in file.missing /\ "vertex" \notin file.missing

\* C26: Read of an ICON file without the dimension cell ends in an
\* exception that names the file and the dimension cell, with the process
\* alive.
C26_MissingCellNamed ==
    IsReadWithoutCell =>
        /\ op.threw /\ status = "ok"
        /\ op.error \in NamesCell /\ strFile \in Range(op.what)

\* The part of C26 that holds: the Read ends in an exception that names the
\* file, with the process alive.
C26_MissingCellFatal ==
    IsReadWithoutCell => op.threw /\ status = "ok" /\ strFile \in Range(op.what)

\* ------------------------------------------------------------------------
\* Failing operations
\* ------------------------------------------------------------------------
\* The step leaves faces, parent indices and face areas as they were.
MeshKept ==
    /\ faces' = faces
    /\ vecSourceFaceIx' = vecSourceFaceIx
    /\ vecTargetFaceIx' = vecTargetFaceIx
    /\ vecFaceArea' = vecFaceArea

\* C27: a call of CalculateFaceAreasFromOverlap or of
\* ExchangeFirstAndSecondMesh that ends in an exception leaves the faces,
\* the parent indices and the face areas as they were before the call.
C27_FailureNoEffect ==
    [][(op'.name \in {FromOverlap, Exchange} /\ op'.threw) => MeshKept]_vars

\* The part of C27 that holds: ExchangeFirstAndSecondMesh, and
\* CalculateFaceAreasFromOverlap on an overlap mesh without areas.
C27_FailureNoEffectEarly ==
    [][(/\ op'.name \in {FromOverlap, Exchange} /\ op'.threw
        /\ op'.error # "Overlap Mesh FirstFaceIx contains invalid Face index") => MeshKept]_vars

\* ------------------------------------------------------------------------
\* What ExchangeFirstAndSecondMesh leaves alone
\* ------------------------------------------------------------------------
\* C28: a call of ExchangeFirstAndSecondMesh leaves the nodes, the edge
\* map, the reverse node array and the face areas exactly as they were, so
\* area entry i stays the area of the face that stood at position i before
\* the call.
C28_ExchangeKeepsDerived ==
    [][op'.name = Exchange =>
            /\ nodes' = nodes
            /\ edgemap' = edgemap
            /\ revnodearray' = revnodearray
            /\ vecFaceArea' = vecFaceArea]_vars

\* The exchange has reordered the faces of a mesh with an edge map, a
\* reverse node array and face areas: the areas are those of the faces in
\* their former order and not those of the faces in their new order.
C28_Witness ==
    /\ op.name = Exchange /\ ~op.threw /\ faces # pre.faces
    /\ edgemap # <<>> /\ revnodearray # <<>>
    /\ vecFaceArea = CalculateFaceAreasResult(nodes, pre.faces).vecFaceArea
    /\ vecFaceArea # CalculateFaceAreasResult(nodes, faces).vecFaceArea

\* ------------------------------------------------------------------------
\* RemoveCoincidentNodes on a mesh without nodes
\* ------------------------------------------------------------------------
\* C29: every call of RemoveCoincidentNodes completes, and on a mesh
\* without nodes it leaves nodes and faces as they were.
C29_DedupCompletes ==
    op.name = Dedup =>
        /\ status = "ok"
        /\ Len(pre.nodes) = 0 => (nodes = pre.nodes /\ faces = pre.faces)

\* The part of C29 that holds: on a mesh with nodes, whose faces refer to
\* nodes of the list, the call completes.
C29_DedupCompletesWithNodes ==
    (op.name = Dedup /\ Len(pre.nodes) >= 1 /\ FacesValid(pre.faces, Len(pre.nodes))) =>
        status = "ok"

\* ------------------------------------------------------------------------
\* Validate: the loops over zero edges
\* ------------------------------------------------------------------------
IsZeroEdge(face, j) == face[j + 1][1] = face[j + 1][2]

\* The first position after j, going round the face, that holds an edge
\* that is not a zero edge; j itself when there is no other.
NextNonDegenerate(face, j) ==
    LET n == Len(face)
        d == CHOOSE x \in 1..n :
                /\ ~IsZeroEdge(face, (j + x) % n)
                /\ \A y \in 1..(x - 1) : IsZeroEdge(face, (j + y) % n)
    IN  (j + d) % n

\* C30: Validate never fails with 'No edge information on Face'; in every
\* face the first loop started at a position j ends at a position from j
\* to the number of edges, on the first edge from j on that is not a zero
\* edge, and the second loop started behind a position j whose edge is not
\* a zero edge ends inside the face, on the next such edge round the face;
\* a mesh of unit nodes whose faces have zero edges only, or no edges,
\* passes.
C30_NoEdgeInformationUnreachable ==
    op.name = "Validate" =>
        /\ op.error # "Mesh validation failed: No edge information on Face"
        /\ \A i \in 1..Len(faces) :
            LET face == faces[i]
                n == Len(face)
            IN  \A j \in 0..(n - 1) :
                    /\ SkipZeroEdges(face, j) \in j..n
                    /\ \A x \in j..(SkipZeroEdges(face, j) - 1) : IsZeroEdge(face, x)
                    /\ SkipZeroEdges(face, j) < n => ~IsZeroEdge(face, SkipZeroEdges(face, j))
                    /\ ~IsZeroEdge(face, j) =>
                        /\ FindNextEdge(face, j, (j + 1) % n) \in 0..(n - 1)
                        /\ FindNextEdge(face, j, (j + 1) % n) = NextNonDegenerate(face, j)
        /\ (/\ \A k \in 1..Len(nodes) : IsUnitMagnitude(nodes[k])
            /\ \A i \in 1..Len(faces) : \A j \in 0..(Len(faces[i]) - 1) : IsZeroEdge(faces[i], j))
           => ~op.threw

\* Validate has passed a face of zero edges only, and a face with zero
\* edges between its other edges.
C30_Witness ==
    /\ op.name = "Validate" /\ Len(faces) = 1
    /\ \/ /\ ~op.threw /\ Len(faces[1]) = 3
          /\ \A j \in 0..2 : IsZeroEdge(faces[1], j)
       \/ /\ ~op.threw /\ Len(faces[1]) = 5
          /\ IsZeroEdge(faces[1], 1) /\ IsZeroEdge(faces[1], 2) /\ ~IsZeroEdge(faces[1], 0)
====
